---- MODULE Spec2Model ----
(***************************************************************************)
(* Model of the beam-search solvability checker of src/solver.js.          *)
(*                                                                         *)
(* One solve call (isSolvable -> beamSearchSolve) is a state machine over  *)
(* the locals of beamSearchSolve.  Board positions are the JavaScript      *)
(* indices 0..n-1; a board is a sequence, so position p is board[p + 1].   *)
(* stats.timeMs is a wall-clock measurement and is left out of the result. *)
(***************************************************************************)
EXTENDS Integers, Sequences, FiniteSets, TLC

(* ---------------------------------------------------------------- bounds *)

\* Longest initial board the solve calls are drawn from.
MaxSlots == 3

\* Piece types on the drawn boards are 0 .. NumIcons - 1.
NumIcons == 2

\* Configured params range over 0 (absent or falsy) and 1 .. the bound.
MaxBeamWidth == 2

MaxMaxExpansions == 8

MaxMaxDepth == 4

\* The same for the calls on six-piece level boards, whose shortest solution
\* takes 6 moves and 6 expansions: maxDepth ranges over 0 and
\* 6 .. MaxLevelDepth, maxExpansions over 0 .. MaxLevelExpansions.
MaxLevelDepth == 7

MaxLevelExpansions == 22

(* ----------------------------------------------------- program constants *)

SOLVER_BEAM_WIDTH == 100

SOLVER_MAX_EXPANSIONS == 5000

SOLVER_MAX_DEPTH == 200

\* The tray capacity of the lose check (result.tray.length > 7).
TRAY_CAPACITY == 7

\* The empty-slot sentinel of a board.
EMPTY == -1

\* The value undefined, which an array yields at an index it does not have;
\* as a property key it comes after every integer key.
UNDEFINED == 1000000

\* -Infinity of stats.bestScore, below every score a search can reach.
NegInfinity == 0 - 2147483647

(* ------------------------------------------------------ sequence helpers *)

Range(s) == {s[i] : i \in DOMAIN s}

Count(s, x) == Cardinality({i \in DOMAIN s : s[i] = x})

\* Array.prototype.filter(x => x !== -1).length
CountPieces(board) == Cardinality({i \in DOMAIN board : board[i] # EMPTY})

\* Mutant: only two occurrences are taken (slice(0, 2)).
FirstThree_FirstTwo(s, x) ==
    {i \in DOMAIN s : s[i] = x /\ Cardinality({j \in 1..i : s[j] = x}) <= 2}

\* Mutant: the last three occurrences are taken (slice(-3)).
FirstThree_LastThree(s, x) ==
    {i \in DOMAIN s : s[i] = x /\ Cardinality({j \in i..Len(s) : s[j] = x}) <= 3}

\* The indices of the first three occurrences of x in s (slice(0, 3) of the
\* index list that forEach builds in ascending index order).
FirstThree(s, x) ==
    {i \in DOMAIN s : s[i] = x /\ Cardinality({j \in 1..i : s[j] = x}) <= 3}

\* s without the positions in idx, the others keeping their order (the
\* splices run from the highest index down, so no index shifts under them).
RECURSIVE DropAt(_, _, _)
DropAt(s, idx, i) ==
    IF i > Len(s) THEN <<>>
    ELSE IF i \in idx THEN DropAt(s, idx, i + 1)
    ELSE <<s[i]>> \o DropAt(s, idx, i + 1)

(* ------------------------------------------------- resolveTrayTriples    *)

\* for (const iconIdx in iconCounts): the keys are non-negative integers, which
\* an object enumerates in ascending numeric order; the first with >= 3 wins.
\* Mutant: a triple is cleared only from the fourth occurrence on.
QualifyingIcons_MoreThanThree(tray) == {x \in Range(tray) : Count(tray, x) > 3}

\* Mutant: only three adjacent entries of one icon qualify.
QualifyingIcons_Adjacent(tray) ==
    {x \in Range(tray) : \E i \in 1..(Len(tray) - 2) :
        tray[i] = x /\ tray[i + 1] = x /\ tray[i + 2] = x}

QualifyingIcons(tray) == {x \in Range(tray) : Count(tray, x) >= 3}

\* Mutant: the qualifying icon that occurs first in the tray wins.
FirstQualifying_EarliestInTray(tray) ==
    tray[CHOOSE i \in DOMAIN tray :
            /\ tray[i] \in QualifyingIcons(tray)
            /\ \A j \in 1..(i - 1) : tray[j] \notin QualifyingIcons(tray)]

FirstQualifying(tray) ==
    CHOOSE x \in QualifyingIcons(tray) : \A y \in QualifyingIcons(tray) : x <= y

RECURSIVE ResolveLoop(_, _, _)
ResolveLoop(tray, clearedCount, clearedIcons) ==
    IF QualifyingIcons(tray) = {}
    THEN [tray |-> tray, clearedCount |-> clearedCount, clearedIcons |-> clearedIcons]
    ELSE LET icon == FirstQualifying(tray)
         IN  ResolveLoop(DropAt(tray, FirstThree(tray, icon), 1),
                         clearedCount + 3,
                         Append(clearedIcons, icon))

\* Mutant: the tray is copied and returned as it came.
resolveTrayTriples_Unresolved(trayIconIndices) ==
    [tray |-> trayIconIndices, clearedCount |-> 0, clearedIcons |-> <<>>]

resolveTrayTriples(trayIconIndices) == ResolveLoop(trayIconIndices, 0, <<>>)

(* ------------------------------------------------------------ hashState  *)

\* Array.prototype.join(','): the decimal texts separated by commas.
\* join renders undefined as the empty text.
ElementText(x) == IF x = UNDEFINED THEN "" ELSE ToString(x)

\* (The text is put together by halves to keep the evaluation shallow.)
RECURSIVE Join(_)
Join(s) ==
    IF s = <<>> THEN ""
    ELSE IF Len(s) = 1 THEN ElementText(s[1])
    ELSE LET half == Len(s) \div 2
         IN  Join(SubSeq(s, 1, half)) \o "," \o Join(SubSeq(s, half + 1, Len(s)))

hashState(board, tray) == Join(board) \o "|" \o Join(tray)

(* ------------------------------------------------------------ scoreState *)

\* Big reward for triple clears: cleared is measured against the tray before
\* the move (prevTray), which does not hold the piece just picked.
TripleReward(tray, prevTray) ==
    LET cleared == Len(prevTray) - Len(tray)
    IN  IF cleared >= 3 THEN 100 * (cleared \div 3) ELSE 0

PairReward(tray) == 12 * Cardinality({x \in Range(tray) : Count(tray, x) = 2})

\* Mutant: every distinct type of the tray is penalized, new or not.
NewIconPenalty_EveryIcon(tray, prevTray) == 8 * Cardinality(Range(tray))

NewIconPenalty(tray, prevTray) == 8 * Cardinality(Range(tray) \ Range(prevTray))

scoreState(board, tray, prevTray, prevRemaining, newRemaining) ==
    TripleReward(tray, prevTray)
    + PairReward(tray)
    - NewIconPenalty(tray, prevTray)
    - 3 * Len(tray)
    + 5 * (prevRemaining - newRemaining)

(* ------------------------------------------------ the solve call's input *)

VARIABLES
    initialBoard,       \* the caller's board assignment
    getClickableSlots,  \* the caller's collaborator, by name
    params,             \* the caller's config; 0 stands for absent or falsy
    frame,              \* the locals of beamSearchSolve
    call,               \* the locals of a resolveTrayTriples call made alone
    game                \* the interactive game's state (the game code of README.md)

vars == <<initialBoard, getClickableSlots, params, frame, call, game>>

\* No resolveTrayTriples call is under way.
NoCall ==
    [pc |-> "done", trayIconIndices |-> <<>>, tray |-> <<>>,
     clearedCount |-> 0, clearedIcons |-> <<>>]

\* No level builder is running: the locals of buildLevel2Tiles and
\* buildLevel3Tiles, and calls, the number of isSolvable calls made.
NoBuilder ==
    [pc |-> "idle", level |-> 0, tryNum |-> 0, iconBag |-> <<>>,
     bestAssignment |-> <<>>, solvable |-> FALSE, calls |-> 0]

\* The game's globals as the script declares them, before the page has loaded.
NoGame ==
    [tiles |-> <<>>, tray |-> <<>>, gameOver |-> FALSE, currentLevel |-> 1,
     undoHistory |-> <<>>,
     toolsUsed |-> [undo |-> FALSE, remove |-> FALSE, shuffle |-> FALSE],
     timers |-> <<>>, modal |-> "none", builtLevel |-> 0, usedThisGame |-> {},
     builder |-> NoBuilder]

\* The ascending sequence of a finite set of integers.
RECURSIVE Ascending(_)
Ascending(S) ==
    IF S = {} THEN <<>>
    ELSE LET m == CHOOSE x \in S : \A y \in S : x <= y
         IN  <<m>> \o Ascending(S \ {m})

\* The largest of a non-empty finite set of integers.
MaxOf(S) == CHOOSE x \in S : \A y \in S : y <= x

Reverse(s) == [i \in 1..Len(s) |-> s[Len(s) + 1 - i]]

\* The levels, scaled down: levels 1 and 3 are a bottom row of two tiles with
\* a top tile over the first, level 2 is one pile of twelve.  The slots are
\* listed in the order the tiles are created.
Slot(level, x, z) ==
    [slotId |-> "level" \o ToString(level) \o "_" \o ToString(x) \o "_" \o ToString(z),
     x |-> x, z |-> z]

LevelSlots(level) ==
    CASE level = 1 -> <<Slot(1, 0, 0), Slot(1, 1, 0), Slot(1, 0, 1)>>
      [] level = 2 -> [i \in 1..12 |-> Slot(2, 0, i - 1)]
      [] level = 3 -> <<Slot(3, 0, 0), Slot(3, 1, 0), Slot(3, 0, 1)>>

\* getClickableSlotIndices(boardAssignment, slots) of the game: the ids of the
\* slots that hold a piece no piece of a higher slot of the same place
\* overlaps, in ascending order.
getClickableSlotIndices(boardAssignment, slots) ==
    Ascending({i - 1 : i \in
        {j \in DOMAIN boardAssignment :
            /\ boardAssignment[j] # EMPTY
            /\ j \in DOMAIN slots
            /\ ~\E k \in DOMAIN boardAssignment :
                    /\ boardAssignment[k] # EMPTY
                    /\ k \in DOMAIN slots
                    /\ slots[k].z > slots[j].z
                    /\ slots[k].x = slots[j].x}})

\* The collaborators a call is drawn with, each a pure function of the board:
\*   "all"    every position, empty or not;
\*   "pieces" the positions that hold a piece;
\*   "stack"  layering: a piece is selectable when the next position up is
\*            empty or absent, highest position first.
\* A fourth, "beyond", is a collaborator at fault: the positions that hold a
\* piece and then the position one past the end of the board.  "level2" and
\* "level3" are the closures level authoring passes,
\* (board) => getClickableSlotIndices(board, slots).
Collaborators == {"all", "pieces", "stack"}

ClickableSlots(name, board) ==
    CASE name = "all" -> [i \in 1..Len(board) |-> i - 1]
      [] name = "pieces" ->
            Ascending({i - 1 : i \in {j \in DOMAIN board : board[j] # EMPTY}})
      [] name = "stack" ->
            Reverse(Ascending({i - 1 : i \in
                {j \in DOMAIN board :
                    /\ board[j] # EMPTY
                    /\ (j = Len(board) \/ board[j + 1] = EMPTY)}}))
      [] name = "beyond" ->
            Append(Ascending({i - 1 : i \in {j \in DOMAIN board : board[j] # EMPTY}}),
                   Len(board))
      [] name = "level2" -> getClickableSlotIndices(board, LevelSlots(2))
      [] name = "level3" -> getClickableSlotIndices(board, LevelSlots(3))

\* params.x || DEFAULT
OrDefault(value, default) == IF value = 0 THEN default ELSE value

beamWidth(p) == OrDefault(p.beamWidth, SOLVER_BEAM_WIDTH)

maxExpansions(p) == OrDefault(p.maxExpansions, SOLVER_MAX_EXPANSIONS)

maxDepth(p) == OrDefault(p.maxDepth, SOLVER_MAX_DEPTH)

(* ------------------------------------------------------- beamSearchSolve *)

initialNode(board) ==
    [board |-> board, tray |-> <<>>, score |-> 0, moves |-> <<>>, depth |-> 0,
     hash |-> hashState(board, <<>>)]

\* The frame after the statements before the depth loop.  Three fields are
\* history, not locals of the code: truncated, whether some depth's slice(0,
\* beamWidth) dropped a candidate; bestSeen, the highest score of a node that
\* has been in a beam; afterCall, whether another call returned before this
\* one began.
StartFrame(board) ==
    [pc |-> "loop",
     visited |-> (hashState(board, <<>>) :> [score |-> 0, trayLen |-> 0]),
     expansions |-> 0,
     beam |-> <<initialNode(board)>>,
     candidates |-> <<>>,
     depth |-> 0,
     nodeIdx |-> 0,
     clickableSlots |-> <<>>,
     slotIdx |-> 0,
     truncated |-> FALSE,
     bestSeen |-> 0,
     afterCall |-> FALSE,
     result |-> <<>>]

\* Mutant: the depth loop runs while depth <= maxDepth.
LoopContinues_Inclusive(p, f) == f.depth <= maxDepth(p) /\ Len(f.beam) > 0

\* Mutant: the depth loop has no depth limit.
LoopContinues_NoDepthLimit(p, f) == Len(f.beam) > 0

\* depth < maxDepth && beam.length > 0
LoopContinues(p, f) == f.depth < maxDepth(p) /\ Len(f.beam) > 0

\* Mutant: the budget test lets one expansion too many through.
BudgetExhausted_OffByOne(p, f) == f.expansions > maxExpansions(p)

\* Mutant: the budget test stops one expansion early.
BudgetExhausted_Early(p, f) == f.expansions + 1 >= maxExpansions(p)

\* Mutant: the budget is rationed over the depths, maxExpansions / maxDepth
\* for each depth reached so far.
BudgetExhausted_Rationed(p, f) ==
    f.expansions >= (f.depth + 1) * (maxExpansions(p) \div maxDepth(p))

\* expansions >= maxExpansions
BudgetExhausted(p, f) == f.expansions >= maxExpansions(p)

\* Mutant: the win check forgets the tray.
IsSolved_BoardOnly(node) == CountPieces(node.board) = 0

\* remaining === 0 && node.tray.length === 0
IsSolved(node) == CountPieces(node.board) = 0 /\ Len(node.tray) = 0

\* Mutant: only a shorter recorded tray prunes.
Dominated_ShorterTray(visited, hash, score, trayLen) ==
    /\ hash \in DOMAIN visited
    /\ visited[hash].trayLen < trayLen

\* Mutant: only a strictly better recorded score prunes.
Dominated_Strict(visited, hash, score, trayLen) ==
    /\ hash \in DOMAIN visited
    /\ visited[hash].score > score
    /\ visited[hash].trayLen <= trayLen

\* visitedEntry && visitedEntry.score >= newScore && visitedEntry.trayLen <= length
Dominated(visited, hash, score, trayLen) ==
    /\ hash \in DOMAIN visited
    /\ visited[hash].score >= score
    /\ visited[hash].trayLen <= trayLen

\* Mutant: the lose check is placed after the table update.
TrayOverflow_Never(tray) == FALSE

\* Mutant: the lose check lets a tray of eight through.
TrayOverflow_OffByOne(tray) == Len(tray) > TRAY_CAPACITY + 1

\* result.tray.length > 7
TrayOverflow(tray) == Len(tray) > TRAY_CAPACITY

\* Mutant: the sort puts candidates of equal score in reverse order of
\* generation.
SortedIndex_TiesReversed(cands) ==
    LET n == Len(cands)
        rank == [i \in 1..n |->
                    1 + Cardinality({j \in 1..n :
                        \/ cands[j].score > cands[i].score
                        \/ (cands[j].score = cands[i].score /\ j > i)})]
    IN  [k \in 1..n |-> CHOOSE i \in 1..n : rank[i] = k]

\* candidates.sort((a, b) => b.score - a.score): descending, stable.
\* SortedIndex(cands)[k] is the index in cands of the k-th candidate after
\* the sort: those of higher score come first, those of equal score in the
\* order they were pushed.
SortedIndex(cands) ==
    LET n == Len(cands)
        scores == [i \in 1..n |-> cands[i].score]
        rank == [i \in 1..n |->
                    1 + Cardinality({j \in 1..n :
                        \/ scores[j] > scores[i]
                        \/ (scores[j] = scores[i] /\ j < i)})]
    IN  [k \in 1..n |-> CHOOSE i \in 1..n : rank[i] = k]

\* candidates.slice(0, beamWidth) of the sorted candidates.
TopCandidates(cands, width) ==
    LET at == SortedIndex(cands)
        kept == IF Len(cands) < width THEN Len(cands) ELSE width
    IN  [k \in 1..kept |-> cands[at[k]]]

\* Mutant: the expansion counter is declared inside the depth loop, so every
\* depth starts with a fresh budget.
BeginDepthStep_FreshBudget(p, f) ==
    [f EXCEPT !.pc = "node", !.candidates = <<>>, !.nodeIdx = 1, !.expansions = 0]

BeginDepthStep(p, f) ==
    [f EXCEPT !.pc = "node", !.candidates = <<>>, !.nodeIdx = 1]

UnsolvableResult(p, f) ==
    [solvable |-> FALSE,
     stats |-> [expansionsUsed |-> f.expansions,
                bestScore |-> IF Len(f.beam) > 0 THEN f.beam[1].score
                              ELSE NegInfinity,
                beamWidth |-> beamWidth(p)]]

\* Mutant: stats.depth counts the depths begun, the one of the win included.
SolvableResult_DepthsBegun(p, f, node) ==
    [solvable |-> TRUE,
     winningMoves |-> node.moves,
     stats |-> [expansionsUsed |-> f.expansions,
                bestScore |-> node.score,
                beamWidth |-> beamWidth(p),
                depth |-> f.depth + 1]]

SolvableResult(p, f, node) ==
    [solvable |-> TRUE,
     winningMoves |-> node.moves,
     stats |-> [expansionsUsed |-> f.expansions,
                bestScore |-> node.score,
                beamWidth |-> beamWidth(p),
                depth |-> f.depth]]

\* One pass of the body of `for (const slotIdx of clickableSlots)` past its
\* budget check.
ExpandStep(p, f) ==
    LET node == f.beam[f.nodeIdx]
        slot == f.clickableSlots[f.slotIdx]
        inRange == slot + 1 \in DOMAIN node.board
        iconIdx == IF inRange THEN node.board[slot + 1] ELSE UNDEFINED
        spent == [f EXCEPT !.expansions = @ + 1, !.slotIdx = @ + 1]
    IN  IF iconIdx = EMPTY THEN spent
        ELSE
        LET newBoard == IF inRange THEN [node.board EXCEPT ![slot + 1] = EMPTY]
                        ELSE [i \in 1..(slot + 1) |->
                                IF i \in DOMAIN node.board THEN node.board[i]
                                ELSE IF i = slot + 1 THEN EMPTY ELSE UNDEFINED]
            result == resolveTrayTriples(Append(node.tray, iconIdx))
        IN  IF TrayOverflow(result.tray) THEN spent
            ELSE
            LET remaining == CountPieces(node.board)
                newRemaining == CountPieces(newBoard)
                newScore == node.score + scoreState(newBoard, result.tray,
                                node.tray, remaining, newRemaining)
                newHash == hashState(newBoard, result.tray)
            IN  IF Dominated(f.visited, newHash, newScore, Len(result.tray))
                THEN spent
                ELSE [spent EXCEPT
                        !.visited = (newHash :> [score |-> newScore,
                                                 trayLen |-> Len(result.tray)])
                                    @@ @,
                        !.candidates = Append(@,
                            [board |-> newBoard,
                             tray |-> result.tray,
                             score |-> newScore,
                             moves |-> Append(node.moves, slot),
                             depth |-> f.depth + 1,
                             hash |-> newHash])]

EndDepthStep(p, f) ==
    LET beam == TopCandidates(f.candidates, beamWidth(p))
    IN  [f EXCEPT !.pc = "loop",
                  !.beam = beam,
                  !.truncated = @ \/ Len(f.candidates) > beamWidth(p),
                  !.bestSeen = MaxOf({@} \cup {beam[i].score : i \in DOMAIN beam}),
                  !.depth = @ + 1]

ReturnUnsolvableStep(p, f) ==
    [f EXCEPT !.pc = "done", !.result = UnsolvableResult(p, f)]

ReturnSolvableStep(p, f) ==
    [f EXCEPT !.pc = "done", !.result = SolvableResult(p, f, f.beam[f.nodeIdx])]

QuerySlotsStep(click, p, f) ==
    [f EXCEPT !.pc = "slot",
              !.clickableSlots = ClickableSlots(click, f.beam[f.nodeIdx].board),
              !.slotIdx = 1]

NextNodeStep(p, f) == [f EXCEPT !.pc = "node", !.nodeIdx = @ + 1]

\* The next frame of a call that has not returned, in the order the code
\* tests its conditions.
StepFrame(click, p, f) ==
    CASE f.pc = "loop" ->
            IF LoopContinues(p, f) THEN BeginDepthStep(p, f)
            ELSE ReturnUnsolvableStep(p, f)
      [] f.pc = "node" ->
            IF f.nodeIdx > Len(f.beam) \/ BudgetExhausted(p, f)
            THEN EndDepthStep(p, f)
            ELSE IF IsSolved(f.beam[f.nodeIdx]) THEN ReturnSolvableStep(p, f)
            ELSE QuerySlotsStep(click, p, f)
      [] f.pc = "slot" ->
            IF f.slotIdx > Len(f.clickableSlots) \/ BudgetExhausted(p, f)
            THEN NextNodeStep(p, f)
            ELSE ExpandStep(p, f)

\* The frame 2^k steps on, or the returned frame when the call returns
\* sooner (the steps are composed by halves to keep the evaluation shallow).
RECURSIVE RunFrame(_, _, _, _)
RunFrame(click, p, f, k) ==
    IF f.pc = "done" THEN f
    ELSE IF k = 0 THEN StepFrame(click, p, f)
    ELSE RunFrame(click, p, RunFrame(click, p, f, k - 1), k - 1)

\* The whole call, as the function of its arguments that it is: a call takes
\* fewer than 2^16 steps (at most 200 depths of at most 5000 expansions in all).
beamSearchSolve(board, click, p) == RunFrame(click, p, StartFrame(board), 16)

isSolvable(board, click, p) == beamSearchSolve(board, click, p).result

(* ---------------------------------------------------------------- actions *)

\* The loop head of `for (depth ...)` lets another depth begin.
BeginDepth ==
    /\ frame.pc = "loop"
    /\ LoopContinues(params, frame)
    /\ frame' = BeginDepthStep(params, frame)
    /\ UNCHANGED <<initialBoard, getClickableSlots, params, call, game>>

\* The depth loop is over: "No solution found".
ReturnUnsolvable ==
    /\ frame.pc = "loop"
    /\ ~LoopContinues(params, frame)
    /\ frame' = ReturnUnsolvableStep(params, frame)
    /\ UNCHANGED <<initialBoard, getClickableSlots, params, call, game>>

\* `for (const node of beam)` ends, by running out of nodes or by the budget
\* break at its top; the candidates are sorted and cut to the next beam.
EndDepth ==
    /\ frame.pc = "node"
    /\ (frame.nodeIdx > Len(frame.beam) \/ BudgetExhausted(params, frame))
    /\ frame' = EndDepthStep(params, frame)
    /\ UNCHANGED <<initialBoard, getClickableSlots, params, call, game>>

\* The win check of a beam node succeeds.
ReturnSolvable ==
    /\ frame.pc = "node"
    /\ frame.nodeIdx <= Len(frame.beam)
    /\ ~BudgetExhausted(params, frame)
    /\ IsSolved(frame.beam[frame.nodeIdx])
    /\ frame' = ReturnSolvableStep(params, frame)
    /\ UNCHANGED <<initialBoard, getClickableSlots, params, call, game>>

\* The node is not solved: ask the collaborator for its clickable slots.
QuerySlots ==
    /\ frame.pc = "node"
    /\ frame.nodeIdx <= Len(frame.beam)
    /\ ~BudgetExhausted(params, frame)
    /\ ~IsSolved(frame.beam[frame.nodeIdx])
    /\ frame' = QuerySlotsStep(getClickableSlots, params, frame)
    /\ UNCHANGED <<initialBoard, getClickableSlots, params, call, game>>

\* One clickable slot is expanded.
ExpandSlot ==
    /\ frame.pc = "slot"
    /\ frame.slotIdx <= Len(frame.clickableSlots)
    /\ ~BudgetExhausted(params, frame)
    /\ frame' = ExpandStep(params, frame)
    /\ UNCHANGED <<initialBoard, getClickableSlots, params, call, game>>

\* `for (const slotIdx of clickableSlots)` ends, by running out of slots or by
\* its budget break; the next beam node is taken.
NextNode ==
    /\ frame.pc = "slot"
    /\ (frame.slotIdx > Len(frame.clickableSlots) \/ BudgetExhausted(params, frame))
    /\ frame' = NextNodeStep(params, frame)
    /\ UNCHANGED <<initialBoard, getClickableSlots, params, call, game>>

(* ------------------------------------------------------- specifications *)

SlotValues == {EMPTY} \cup (0..(NumIcons - 1))

Boards == UNION {[1..n -> SlotValues] : n \in 1..MaxSlots}

Configs ==
    [beamWidth : 0..MaxBeamWidth,
     maxExpansions : 0..MaxMaxExpansions,
     maxDepth : 0..MaxMaxDepth]

\* isSolvable(initialBoardAssignment, getClickableSlotIndices, params) has
\* been called and beamSearchSolve stands at its depth loop.
Init ==
    /\ initialBoard \in Boards
    /\ getClickableSlots \in Collaborators
    /\ params \in Configs
    /\ frame = StartFrame(initialBoard)
    /\ call = NoCall
    /\ game = NoGame

Next ==
    \/ BeginDepth
    \/ ReturnUnsolvable
    \/ EndDepth
    \/ ReturnSolvable
    \/ QuerySlots
    \/ ExpandSlot
    \/ NextNode

Spec == Init /\ [][Next]_vars

\* The calls of a session: full boards of MaxSlots slots, any beam width, the
\* default or the largest expansion budget, the default depth limit.
SessionBoards == [1..MaxSlots -> 0..(NumIcons - 1)]

SessionConfigs ==
    [beamWidth : 0..MaxBeamWidth, maxExpansions : {0, MaxMaxExpansions}, maxDepth : {0}]

\* Mutant: the transposition table is a module-level Map that outlives the
\* call.
NextCallFrame_KeepVisited(f, board) ==
    [StartFrame(board) EXCEPT !.afterCall = TRUE, !.visited = @ @@ f.visited]

\* The frame of a call made after another has returned: visited, expansions
\* and beam are locals, created afresh by every call.
NextCallFrame(f, board) == [StartFrame(board) EXCEPT !.afterCall = TRUE]

\* The caller calls isSolvable again, as level authoring does for every
\* assignment it tries.
NewCall ==
    /\ frame.pc = "done"
    /\ \E board \in SessionBoards, click \in Collaborators, p \in SessionConfigs :
            /\ initialBoard' = board
            /\ getClickableSlots' = click
            /\ params' = p
            /\ frame' = NextCallFrame(frame, board)
    /\ UNCHANGED <<call, game>>

NextSession ==
    \/ Next
    \/ NewCall

InitSession ==
    /\ initialBoard \in SessionBoards
    /\ getClickableSlots \in Collaborators
    /\ params \in SessionConfigs
    /\ frame = StartFrame(initialBoard)
    /\ call = NoCall
    /\ game = NoGame

SpecSession == InitSession /\ [][NextSession]_vars

\* Calls on the boards no longer than the triple board, with each param
\* absent, at its smallest or at its largest value.
FairBoards == {b \in Boards : Len(b) <= Len(<<0, 0, 0>>)}

FairConfigs ==
    [beamWidth : {0, 1, MaxBeamWidth},
     maxExpansions : {0, 1, MaxMaxExpansions},
     maxDepth : {0, 1, MaxMaxDepth}]

InitFair ==
    /\ initialBoard \in FairBoards
    /\ getClickableSlots \in Collaborators
    /\ params \in FairConfigs
    /\ frame = StartFrame(initialBoard)
    /\ call = NoCall
    /\ game = NoGame

\* A call runs to its return: JavaScript runs a function to completion, so a
\* step that is enabled is taken.
SpecFair == InitFair /\ [][Next]_vars /\ WF_vars(Next)

\* Level boards as level authoring deals them: every piece type a multiple of
\* three times, here two types three times each on six slots.
LevelBoards ==
    {b \in [1..6 -> {0, 1}] : Count(b, 0) = 3 /\ Count(b, 1) = 3}

LevelConfigs ==
    [beamWidth : 0..MaxBeamWidth,
     maxExpansions : 0..MaxLevelExpansions,
     maxDepth : {0} \cup (6..MaxLevelDepth)]

InitLevels ==
    /\ initialBoard \in LevelBoards
    /\ getClickableSlots \in Collaborators
    /\ params \in LevelConfigs
    /\ frame = StartFrame(initialBoard)
    /\ call = NoCall
    /\ game = NoGame

SpecLevels == InitLevels /\ [][Next]_vars

\* The boards of the two end-to-end scenarios: three pieces of one type, and
\* eight distinct piece types, one each.
TripleBoard == <<0, 0, 0>>

DistinctBoard == [i \in 1..8 |-> i - 1]

InitScenarios ==
    /\ initialBoard \in {TripleBoard, DistinctBoard}
    /\ getClickableSlots \in Collaborators
    /\ params \in Configs
    /\ frame = StartFrame(initialBoard)
    /\ call = NoCall
    /\ game = NoGame

SpecScenarios == InitScenarios /\ [][Next]_vars


(* ------------------------------------ a resolveTrayTriples call by itself *)

\* The trays a lone resolveTrayTriples call is drawn with: every sequence of
\* up to MaxTrayLen piece types out of 0 .. NumTrayIcons - 1.
MaxTrayLen == 7

NumTrayIcons == 3

Trays == UNION {[1..n -> 0..(NumTrayIcons - 1)] : n \in 0..MaxTrayLen}

\* const tray = [...trayIconIndices]; let clearedCount = 0; clearedIcons = []
StartCall(trayIconIndices) ==
    [pc |-> "pass", trayIconIndices |-> trayIconIndices, tray |-> trayIconIndices,
     clearedCount |-> 0, clearedIcons |-> <<>>]

\* Mutant: tray is the argument itself (const tray = trayIconIndices), so the
\* splices reach the caller's array.
ClearStep_InPlace(c) ==
    LET icon == FirstQualifying(c.tray)
        left == DropAt(c.tray, FirstThree(c.tray, icon), 1)
    IN  [c EXCEPT !.tray = left,
                  !.trayIconIndices = left,
                  !.clearedCount = @ + 3,
                  !.clearedIcons = Append(@, icon)]

\* Mutant: changed is not set after a clear, so the loop ends after one pass.
ClearStep_Once(c) ==
    LET icon == FirstQualifying(c.tray)
    IN  [c EXCEPT !.pc = "done",
                  !.tray = DropAt(c.tray, FirstThree(c.tray, icon), 1),
                  !.clearedCount = @ + 3,
                  !.clearedIcons = Append(@, icon)]

\* A pass of `while (changed)` that finds an icon with count >= 3: its first
\* three occurrences are spliced out and the loop goes round again.
ClearStep(c) ==
    LET icon == FirstQualifying(c.tray)
    IN  [c EXCEPT !.tray = DropAt(c.tray, FirstThree(c.tray, icon), 1),
                  !.clearedCount = @ + 3,
                  !.clearedIcons = Append(@, icon)]

\* A pass that finds none: changed stays false and the call returns.
ReturnStep(c) == [c EXCEPT !.pc = "done"]

CallStep(c) ==
    IF QualifyingIcons(c.tray) # {} THEN ClearStep(c) ELSE ReturnStep(c)

RECURSIVE RunCall(_)
RunCall(c) == IF c.pc = "done" THEN c ELSE RunCall(CallStep(c))

ClearTriple ==
    /\ call.pc = "pass"
    /\ QualifyingIcons(call.tray) # {}
    /\ call' = ClearStep(call)
    /\ UNCHANGED <<initialBoard, getClickableSlots, params, frame, game>>

ReturnResolved ==
    /\ call.pc = "pass"
    /\ QualifyingIcons(call.tray) = {}
    /\ call' = ReturnStep(call)
    /\ UNCHANGED <<initialBoard, getClickableSlots, params, frame, game>>

\* No solve call is under way.
NoSolve ==
    /\ initialBoard = <<>>
    /\ getClickableSlots = "all"
    /\ params = [beamWidth |-> 0, maxExpansions |-> 0, maxDepth |-> 0]
    /\ frame = [pc |-> "done"]

InitResolve ==
    /\ NoSolve
    /\ call \in {StartCall(t) : t \in Trays}
    /\ game = NoGame

NextResolve ==
    \/ ClearTriple
    \/ ReturnResolved

SpecResolve == InitResolve /\ [][NextResolve]_vars

\* The module's exports in use: a caller has called isSolvable, or has called
\* resolveTrayTriples by itself.
InitExports ==
    \/ Init
    \/ InitResolve

NextExports ==
    \/ Next
    \/ NextResolve

SpecExports == InitExports /\ [][NextExports]_vars

(* ------------------------------------------- the interactive game (README.md) *)

\* The game is the record of its globals.  tiles is the tiles array (tile id i
\* is tiles[i + 1]); a tile's x stands for its place (x, y) on the board, two
\* tiles overlapping when they have the same x; blocked is the 'blocked'
\* class of its element.  tray holds tile ids.  timers holds the pending
\* setTimeout callbacks in the order they were set (with the number of the
\* player's actions each has waited through), modal the overlay on show.  builtLevel and usedThisGame are history: the level the tiles on
\* the board were built for, and the tools that took effect since the game
\* was started (New Game, a modal's button, or the page load).

\* The player's actions that fit between the moment a callback is set and the
\* moment it runs.
MaxActionsPerTimer == 2

\* shuffleArray draws a permutation; the outcomes drawn here are the
\* rotations of the position list by 0 .. MaxShuffleRotation.
MaxShuffleRotation == 1

\* The tools the player uses on one board.
MaxToolsPerLevel == 1

TRAY_SIZE == 7

\* tile.z of a tile in a removed slot.
REMOVED_SLOT_Z == 10

\* The delay of the callback a click sets.
CLICK_CALLBACK_MS == 50

\* The delay of the callbacks that show a modal or build the next level.
DEFERRED_MS == 500

REMOVED_SLOT_IDS == <<"removed0", "removed1", "removed2">>

\* The place of removed slot i (removedRowX + i * ...), apart from the level.
RemovedSlotX(i) == 0 - i

Tools == {"undo", "remove", "shuffle"}

SeqFilter(s, Keep(_)) ==
    LET kept == Ascending({i \in DOMAIN s : Keep(s[i])})
    IN  [k \in 1..Len(kept) |-> s[kept[k]]]

InRemovedSlot(tile) == tile.slotId \in Range(REMOVED_SLOT_IDS)

\* tiles.filter(t => t.location === 'BOARD')
BoardTiles(g) == SeqFilter(g.tiles, LAMBDA t : t.location = "BOARD")

\* updateBlocking: a board tile is blocked when a board tile of higher z
\* overlaps it; tiles in removed slots are never blocked.
IsCovered(g, tile) ==
    \E o \in Range(g.tiles) :
        /\ o.location = "BOARD"
        /\ o.id # tile.id
        /\ o.z > tile.z
        /\ o.x = tile.x

updateBlocking(g) ==
    [g EXCEPT !.tiles =
        [i \in DOMAIN g.tiles |->
            IF g.tiles[i].location # "BOARD" THEN g.tiles[i]
            ELSE IF InRemovedSlot(g.tiles[i]) THEN [g.tiles[i] EXCEPT !.blocked = FALSE]
            ELSE [g.tiles[i] EXCEPT !.blocked = IsCovered(g, g.tiles[i])]]]

\* The game's own resolveTrayTriples: while some three consecutive tray tiles
\* have one icon, the first such three are spliced out and marked CLEARED.
TripleStarts(tiles, tray) ==
    {i \in 1..(Len(tray) - 2) :
        /\ tiles[tray[i] + 1].icon = tiles[tray[i + 1] + 1].icon
        /\ tiles[tray[i + 1] + 1].icon = tiles[tray[i + 2] + 1].icon}

RECURSIVE GameResolveLoop(_, _)
GameResolveLoop(tiles, tray) ==
    IF TripleStarts(tiles, tray) = {} THEN [tiles |-> tiles, tray |-> tray]
    ELSE LET i == CHOOSE k \in TripleStarts(tiles, tray) :
                    \A m \in TripleStarts(tiles, tray) : k <= m
             removed == {tray[i], tray[i + 1], tray[i + 2]}
         IN  GameResolveLoop(
                [k \in DOMAIN tiles |->
                    IF tiles[k].id \in removed
                    THEN [tiles[k] EXCEPT !.location = "CLEARED"]
                    ELSE tiles[k]],
                SubSeq(tray, 1, i - 1) \o SubSeq(tray, i + 3, Len(tray)))

\* tray = resolveTrayTriples(tray).tray, with the locations it sets.
ResolveGameTray(g) ==
    LET r == GameResolveLoop(g.tiles, g.tray)
    IN  [g EXCEPT !.tiles = r.tiles, !.tray = r.tray]

SetTimer(g, fn, delay) ==
    [g EXCEPT !.timers = Append(@, [fn |-> fn, delay |-> delay, actions |-> 0])]

\* An addToTray that puts every tile at the end of the tray.
addToTray_AtEnd(g, tileId) ==
    LET resolved == ResolveGameTray([g EXCEPT !.tray = Append(g.tray, tileId)])
    IN  IF Len(resolved.tray) >= TRAY_SIZE
        THEN SetTimer([resolved EXCEPT !.gameOver = TRUE],
                      "showGameOverModal", DEFERRED_MS)
        ELSE resolved

\* addToTray: the tile goes right after the last tray tile of its icon, or to
\* the end; triples are resolved; a tray of TRAY_SIZE tiles ends the game.
addToTray(g, tileId) ==
    LET icon == g.tiles[tileId + 1].icon
        same == {i \in DOMAIN g.tray : g.tiles[g.tray[i] + 1].icon = icon}
        inserted ==
            IF same # {}
            THEN LET last == MaxOf(same)
                 IN  SubSeq(g.tray, 1, last) \o <<tileId>>
                        \o SubSeq(g.tray, last + 1, Len(g.tray))
            ELSE Append(g.tray, tileId)
        resolved == ResolveGameTray([g EXCEPT !.tray = inserted])
    IN  IF Len(resolved.tray) >= TRAY_SIZE
        THEN SetTimer([resolved EXCEPT !.gameOver = TRUE],
                      "showGameOverModal", DEFERRED_MS)
        ELSE resolved

\* handleTileClick(tileId)
handleTileClick(g, tileId) ==
    IF g.gameOver THEN g
    ELSE IF tileId + 1 \notin DOMAIN g.tiles THEN g
    ELSE IF g.tiles[tileId + 1].location # "BOARD" THEN g
    ELSE IF g.tiles[tileId + 1].blocked THEN g
    ELSE
    LET tile == g.tiles[tileId + 1]
        traySnapshotBefore == g.tray
        moved == addToTray([g EXCEPT !.tiles[tileId + 1].location = "TRAY"], tileId)
        traySnapshotAfter == moved.tray
        clearedTiles ==
            SeqFilter(moved.tiles, LAMBDA t :
                /\ t.location = "CLEARED"
                /\ t.id \in Range(traySnapshotBefore)
                /\ t.id \notin Range(traySnapshotAfter))
        entry ==
            [tileId |-> tile.id, fromSlotId |-> tile.slotId,
             fromX |-> tile.x, fromZ |-> tile.z,
             traySnapshotBefore |-> traySnapshotBefore,
             traySnapshotAfter |-> traySnapshotAfter,
             clearedTilesDuringMove |->
                [k \in DOMAIN clearedTiles |-> clearedTiles[k].id]]
    IN  SetTimer([moved EXCEPT !.undoHistory = Append(@, entry)],
                 "afterClick", CLICK_CALLBACK_MS)

\* checkWinCondition
checkWinCondition(g) ==
    IF Len(BoardTiles(g)) = 0 /\ Len(g.tray) = 0
    THEN IF g.currentLevel = 1
         THEN SetTimer([g EXCEPT !.currentLevel = 2], "initGame", DEFERRED_MS)
         ELSE IF g.currentLevel = 2
         THEN SetTimer([g EXCEPT !.currentLevel = 3], "initGame", DEFERRED_MS)
         ELSE SetTimer([g EXCEPT !.gameOver = TRUE], "showWinModal", DEFERRED_MS)
    ELSE g

\* The callback handleTileClick sets: updateBlocking(); checkWinCondition().
afterClick(g) == checkWinCondition(updateBlocking(g))

\* A board whose only winning order passes through a tray of seven tiles:
\* from the top down 0,0,1,1,2,2,3 and then 0,1,2,3,3.
FullTrayBoard == <<3, 3, 2, 1, 0, 3, 2, 2, 1, 1, 0, 0>>

\* The icons a level may be dealt, slot by slot: every icon a multiple of
\* three times, as the icon lists of the builders hold them.
LevelDeals(level) ==
    CASE level = 1 -> {<<0, 0, 0>>}
      [] level = 2 -> {<<3, 3, 3, 2, 2, 2, 1, 1, 1, 0, 0, 0>>, FullTrayBoard}
      [] level = 3 -> {<<1, 1, 1>>}

\* buildLevelN: a tile for every slot, on the board.
BuildTiles(slots, icons) ==
    [i \in DOMAIN slots |->
        [id |-> i - 1, icon |-> icons[i], x |-> slots[i].x, z |-> slots[i].z,
         location |-> "BOARD", slotId |-> slots[i].slotId, blocked |-> FALSE]]

\* initGame(resetLevel), icons being the icons its level builder deals.
initGame(g, resetLevel, icons) ==
    LET level == IF resetLevel THEN 1 ELSE g.currentLevel
    IN  updateBlocking(
            [g EXCEPT !.modal = "none",
                      !.tiles = BuildTiles(LevelSlots(level), icons),
                      !.tray = <<>>,
                      !.undoHistory = <<>>,
                      !.toolsUsed = [undo |-> FALSE, remove |-> FALSE, shuffle |-> FALSE],
                      !.gameOver = FALSE,
                      !.currentLevel = level,
                      !.builtLevel = level,
                      !.usedThisGame = IF resetLevel THEN {} ELSE @])

\* showModal, by showWinModal or showGameOverModal.
showModal(g, kind) == [g EXCEPT !.modal = kind]

TakesEffect(g, tool) ==
    [g EXCEPT !.toolsUsed[tool] = TRUE, !.usedThisGame = @ \cup {tool}]

\* An Undo that only takes the picked tile out of the tray it finds.
handleUndo_CurrentTray(g) ==
    IF Len(g.undoHistory) = 0 \/ g.gameOver \/ g.toolsUsed.undo THEN g
    ELSE
    LET lastMove == g.undoHistory[Len(g.undoHistory)]
        used == TakesEffect(g, "undo")
    IN  updateBlocking(
            [used EXCEPT
                !.undoHistory = SubSeq(@, 1, Len(@) - 1),
                !.tray = SeqFilter(@, LAMBDA id : id # lastMove.tileId),
                !.tiles[lastMove.tileId + 1] =
                    [@ EXCEPT !.location = "BOARD",
                              !.slotId = lastMove.fromSlotId,
                              !.x = lastMove.fromX,
                              !.z = lastMove.fromZ]])

\* handleUndo
handleUndo(g) ==
    IF Len(g.undoHistory) = 0 \/ g.gameOver \/ g.toolsUsed.undo THEN g
    ELSE
    LET lastMove == g.undoHistory[Len(g.undoHistory)]
        inTray == Range(lastMove.clearedTilesDuringMove)
                    \cup Range(lastMove.traySnapshotBefore)
        used == TakesEffect(g, "undo")
    IN  updateBlocking(
            [used EXCEPT
                !.undoHistory = SubSeq(@, 1, Len(@) - 1),
                !.tray = lastMove.traySnapshotBefore,
                !.tiles = [i \in DOMAIN @ |->
                    IF @[i].id = lastMove.tileId
                    THEN [@[i] EXCEPT !.location = "BOARD",
                                      !.slotId = lastMove.fromSlotId,
                                      !.x = lastMove.fromX,
                                      !.z = lastMove.fromZ]
                    ELSE IF @[i].id \in inTray
                    THEN [@[i] EXCEPT !.location = "TRAY"]
                    ELSE @[i]]])

\* A Remove that moves the three tiles to the removed slots and leaves
\* their location as it was.
handleRemove_KeepLocation(g) ==
    IF Len(g.tray) < 3 \/ g.gameOver \/ g.toolsUsed.remove THEN g
    ELSE IF \E t \in Range(g.tiles) : t.location = "BOARD" /\ InRemovedSlot(t) THEN g
    ELSE
    LET used == TakesEffect(g, "remove")
        placed ==
            [used EXCEPT
                !.tray = SubSeq(@, 4, Len(@)),
                !.tiles = [i \in DOMAIN @ |->
                    IF \E k \in 1..3 : g.tray[k] = @[i].id
                    THEN LET k == CHOOSE k \in 1..3 : g.tray[k] = @[i].id
                         IN  [@[i] EXCEPT !.slotId = REMOVED_SLOT_IDS[k],
                                          !.x = RemovedSlotX(k),
                                          !.z = REMOVED_SLOT_Z]
                    ELSE @[i]]]
    IN  updateBlocking(ResolveGameTray(placed))

\* handleRemove
handleRemove(g) ==
    IF Len(g.tray) < 3 \/ g.gameOver \/ g.toolsUsed.remove THEN g
    ELSE IF \E t \in Range(g.tiles) : t.location = "BOARD" /\ InRemovedSlot(t) THEN g
    ELSE
    LET used == TakesEffect(g, "remove")
        placed ==
            [used EXCEPT
                !.tray = SubSeq(@, 4, Len(@)),
                !.tiles = [i \in DOMAIN @ |->
                    IF \E k \in 1..3 : g.tray[k] = @[i].id
                    THEN LET k == CHOOSE k \in 1..3 : g.tray[k] = @[i].id
                         IN  [@[i] EXCEPT !.location = "BOARD",
                                          !.slotId = REMOVED_SLOT_IDS[k],
                                          !.x = RemovedSlotX(k),
                                          !.z = REMOVED_SLOT_Z]
                    ELSE @[i]]]
    IN  updateBlocking(ResolveGameTray(placed))

\* The outcome of shuffleArray on n positions, as the index each place takes
\* its position from.
Rotation(n, r) == [i \in 1..n |-> ((i - 1 + r) % n) + 1]

\* A Shuffle that leaves the blocked marks as they were.
handleShuffle_StaleMarks(g, r) ==
    IF g.gameOver \/ g.toolsUsed.shuffle THEN g
    ELSE
    LET at == Ascending({i \in DOMAIN g.tiles :
                g.tiles[i].location = "BOARD" /\ ~InRemovedSlot(g.tiles[i])})
        n == Len(at)
    IN  IF n <= 1 THEN g
        ELSE
        LET perm == Rotation(n, r)
            used == TakesEffect(g, "shuffle")
        IN  [used EXCEPT !.tiles = [i \in DOMAIN @ |->
                IF \E k \in 1..n : at[k] = i
                THEN LET k == CHOOSE k \in 1..n : at[k] = i
                         from == g.tiles[at[perm[k]]]
                     IN  [@[i] EXCEPT !.slotId = from.slotId,
                                      !.x = from.x,
                                      !.z = from.z]
                ELSE @[i]]]

\* handleShuffle, perm being what shuffleArray made of the positions.
handleShuffle(g, r) ==
    IF g.gameOver \/ g.toolsUsed.shuffle THEN g
    ELSE
    LET at == Ascending({i \in DOMAIN g.tiles :
                g.tiles[i].location = "BOARD" /\ ~InRemovedSlot(g.tiles[i])})
        n == Len(at)
    IN  IF n <= 1 THEN g
        ELSE
        LET perm == Rotation(n, r)
            used == TakesEffect(g, "shuffle")
        IN  updateBlocking(
                [used EXCEPT !.tiles = [i \in DOMAIN @ |->
                    IF \E k \in 1..n : at[k] = i
                    THEN LET k == CHOOSE k \in 1..n : at[k] = i
                             from == g.tiles[at[perm[k]]]
                         IN  [@[i] EXCEPT !.slotId = from.slotId,
                                          !.x = from.x,
                                          !.z = from.z]
                    ELSE @[i]]])

\* A pending callback may run when no callback set before it has a delay as
\* short or shorter (those are due first).
Fireable(g, i) ==
    /\ i \in DOMAIN g.timers
    /\ \A j \in 1..(i - 1) : g.timers[j].delay > g.timers[i].delay

RemoveTimer(g, i) ==
    [g EXCEPT !.timers = SubSeq(@, 1, i - 1) \o SubSeq(@, i + 1, Len(@))]

\* The number of tools the player has used on the board built last; the
\* player presses a tool button while it is below MaxToolsPerLevel.
ToolsPressed(g) == Cardinality({t \in Tools : g.toolsUsed[t]})

\* The player can act while no pending callback has waited through
\* MaxActionsPerTimer actions.
CanAct(g) == \A i \in DOMAIN g.timers : g.timers[i].actions < MaxActionsPerTimer

\* The game after an action of the player that made it h from g: the
\* callbacks that were pending in g have waited through one more action.
Acted(g, h) ==
    IF h = g THEN g
    ELSE [h EXCEPT !.timers = [i \in DOMAIN @ |->
            IF i <= Len(g.timers) THEN [@[i] EXCEPT !.actions = @ + 1] ELSE @[i]]]

solverVars == <<initialBoard, getClickableSlots, params, frame, call>>

\* The player clicks a tile (the overlay of a modal covers the board).
TileClick ==
    /\ game.modal = "none"
    /\ CanAct(game)
    /\ \E i \in DOMAIN game.tiles :
            game' = Acted(game, handleTileClick(game, game.tiles[i].id))
    /\ UNCHANGED solverVars

\* The callback of a click runs.
AfterClickTimeout ==
    /\ \E i \in DOMAIN game.timers :
        /\ Fireable(game, i)
        /\ game.timers[i].fn = "afterClick"
        /\ game' = afterClick(RemoveTimer(game, i))
    /\ UNCHANGED solverVars

\* The callback of a level win runs: initGame(false).
AdvanceTimeout ==
    /\ \E i \in DOMAIN game.timers :
        /\ Fireable(game, i)
        /\ game.timers[i].fn = "initGame"
        /\ \E icons \in LevelDeals(game.currentLevel) :
                game' = initGame(RemoveTimer(game, i), FALSE, icons)
    /\ UNCHANGED solverVars

GameOverTimeout ==
    /\ \E i \in DOMAIN game.timers :
        /\ Fireable(game, i)
        /\ game.timers[i].fn = "showGameOverModal"
        /\ game' = showModal(RemoveTimer(game, i), "gameOver")
    /\ UNCHANGED solverVars

WinTimeout ==
    /\ \E i \in DOMAIN game.timers :
        /\ Fireable(game, i)
        /\ game.timers[i].fn = "showWinModal"
        /\ game' = showModal(RemoveTimer(game, i), "win")
    /\ UNCHANGED solverVars

UndoClick ==
    /\ game.modal = "none"
    /\ ToolsPressed(game) < MaxToolsPerLevel
    /\ CanAct(game)
    /\ game' = Acted(game, handleUndo(game))
    /\ UNCHANGED solverVars

RemoveClick ==
    /\ game.modal = "none"
    /\ ToolsPressed(game) < MaxToolsPerLevel
    /\ CanAct(game)
    /\ game' = Acted(game, handleRemove(game))
    /\ UNCHANGED solverVars

ShuffleClick ==
    /\ game.modal = "none"
    /\ ToolsPressed(game) < MaxToolsPerLevel
    /\ CanAct(game)
    /\ \E r \in 0..MaxShuffleRotation : game' = Acted(game, handleShuffle(game, r))
    /\ UNCHANGED solverVars

\* The New Game button: initGame().
NewGameClick ==
    /\ game.modal = "none"
    /\ CanAct(game)
    /\ \E icons \in LevelDeals(1) : game' = Acted(game, initGame(game, TRUE, icons))
    /\ UNCHANGED solverVars

\* The button of a modal, or a click on its overlay: initGame().
ModalClick ==
    /\ game.modal # "none"
    /\ CanAct(game)
    /\ \E icons \in LevelDeals(1) : game' = Acted(game, initGame(game, TRUE, icons))
    /\ UNCHANGED solverVars

\* The page has loaded: initGame().
InitGame ==
    /\ NoSolve
    /\ call = NoCall
    /\ game \in {initGame(NoGame, TRUE, icons) : icons \in LevelDeals(1)}

NextGame ==
    \/ TileClick
    \/ AfterClickTimeout
    \/ AdvanceTimeout
    \/ GameOverTimeout
    \/ WinTimeout
    \/ UndoClick
    \/ RemoveClick
    \/ ShuffleClick
    \/ NewGameClick
    \/ ModalClick

SpecGame == InitGame /\ [][NextGame]_vars

(* -------------------------------------------- one board, with every tool *)

\* A board of one pile of nine tiles, dealt so that a pick can clear a triple
\* with three other tiles left in the tray: from the top down the pile holds
\* 0,0,1,1,2,0,1,2,2.
BoardDeal == <<2, 2, 1, 0, 2, 1, 1, 0, 0>>

BoardSlots == [i \in DOMAIN BoardDeal |-> Slot(3, 0, i - 1)]

\* The tool buttons, pressed whatever tools were used before.
PressUndo ==
    /\ game.modal = "none"
    /\ CanAct(game)
    /\ game' = Acted(game, handleUndo(game))
    /\ UNCHANGED solverVars

PressRemove ==
    /\ game.modal = "none"
    /\ CanAct(game)
    /\ game' = Acted(game, handleRemove(game))
    /\ UNCHANGED solverVars

PressShuffle ==
    /\ game.modal = "none"
    /\ CanAct(game)
    /\ \E r \in 0..MaxShuffleRotation : game' = Acted(game, handleShuffle(game, r))
    /\ UNCHANGED solverVars

\* The last level has been built with the board above.
InitBoard ==
    /\ NoSolve
    /\ call = NoCall
    /\ game = updateBlocking(
                [initGame(NoGame, TRUE, TripleBoard) EXCEPT
                    !.tiles = BuildTiles(BoardSlots, BoardDeal),
                    !.currentLevel = 3,
                    !.builtLevel = 3])

\* The board is played until it is cleared and the win modal is on show.
NextBoard ==
    \/ TileClick
    \/ AfterClickTimeout
    \/ PressUndo
    \/ PressRemove
    \/ PressShuffle
    \/ WinTimeout

SpecBoard == InitBoard /\ [][NextBoard]_vars

(* ------------------------------------ a collaborator that leaves the board *)

\* isSolvable is called with a collaborator that also returns the position
\* one past the end of the board, and with a depth limit.
InitBeyond ==
    /\ initialBoard \in FairBoards
    /\ getClickableSlots = "beyond"
    /\ params \in [beamWidth : 0..MaxBeamWidth,
                   maxExpansions : 0..MaxMaxExpansions,
                   maxDepth : 1..MaxMaxDepth]
    /\ frame = StartFrame(initialBoard)
    /\ call = NoCall
    /\ game = NoGame

SpecBeyond == InitBeyond /\ [][Next]_vars

(* ------------------------------------ the solver's moves played in the game *)

\* The game on a board of the solver laid out as one pile, slot i - 1 at
\* height i - 1, so that the layering rule "stack" is the board's blocking.
BoardAsLevel(board) ==
    updateBlocking(
        [initGame(NoGame, TRUE, TripleBoard) EXCEPT
            !.tiles = BuildTiles([i \in DOMAIN board |-> Slot(1, 0, i - 1)], board)])

\* addToTray found the tray full.
TrayFull(g) == \E i \in DOMAIN g.timers : g.timers[i].fn = "showGameOverModal"

\* A click on the tile of a slot, and its callback before the next click.
PlayMove(g, slotIdx) ==
    LET clicked == handleTileClick(g, slotIdx)
    IN  IF clicked = g \/ TrayFull(clicked) THEN clicked
        ELSE afterClick(RemoveTimer(clicked, Len(clicked.timers)))

RECURSIVE PlayMoves(_, _, _)
PlayMoves(g, moves, k) ==
    IF k > Len(moves) THEN g
    ELSE PlayMoves(PlayMove(g, moves[k]), moves, k + 1)

\* isSolvable is called with the layering rule on a level of one pile.
InitPlay ==
    /\ initialBoard \in {TripleBoard, FullTrayBoard}
    /\ getClickableSlots = "stack"
    /\ params \in Configs
    /\ frame = StartFrame(initialBoard)
    /\ call = NoCall
    /\ game = NoGame

SpecPlay == InitPlay /\ [][Next]_vars

(* ------------------------------------------------------------- claims *)

(* ------------------------------------------- calls at the levels' real sizes *)

\* ALL_ICONS has 15 icons; the bag of level 2 holds 12 of each, the bag of
\* level 3 holds 18 of each.
NUM_ALL_ICONS == 15

LEVEL2_PER_ICON == 12

LEVEL3_PER_ICON == 18

\* The bag as the builder fills it, icon by icon, dealt onto a level of one
\* pile: the pile comes off in triples, so no tray ever fills.
FilledBag(perIcon) ==
    [i \in 1..(NUM_ALL_ICONS * perIcon) |-> (i - 1) \div perIcon]

\* isSolvable is called as the builders call it, on 180 and on 270 pieces.
InitRealSize ==
    /\ initialBoard \in {FilledBag(LEVEL2_PER_ICON), FilledBag(LEVEL3_PER_ICON)}
    /\ getClickableSlots = "stack"
    /\ params = [beamWidth |-> 100, maxExpansions |-> 3000, maxDepth |-> 150]
    /\ frame = StartFrame(initialBoard)
    /\ call = NoCall
    /\ game = NoGame

\* Calls on the small boards with every config, and the builders' calls at
\* their real sizes.
InitDepth ==
    \/ Init
    \/ InitRealSize

SpecDepth == InitDepth /\ [][Next]_vars

(* ------------------------------------------------------- level authoring *)

\* buildLevel2Tiles and buildLevel3Tiles: const MAX_TRIES = 50.
MAX_TRIES == 50

\* The params both builders pass to isSolvable.
AuthoringParams == [beamWidth |-> 100, maxExpansions |-> 3000, maxDepth |-> 150]

\* The icon bag as the builder fills it, every icon of the level a multiple
\* of three times, in the order of the icons.
IconBag(level) ==
    CASE level = 2 -> <<0, 0, 0, 1, 1, 1, 2, 2, 2, 3, 3, 3>>
      [] level = 3 -> <<1, 1, 1>>

\* A deal of the pile that cannot be won: from the top down 0,1,2,3,0,1,2,3
\* puts eight tiles into the tray before any triple.
StuckBoard == <<3, 2, 1, 0, 3, 2, 1, 0, 3, 2, 1, 0>>

\* The orders shuffleArray(iconBag) may leave the bag in.
ShuffledBags(level) ==
    LevelDeals(level) \cup (IF level = 2 THEN {StuckBoard} ELSE {})

\* new Array(slots.length).fill(-1), then for every slot
\* ALL_ICONS.indexOf(iconBag[index]); indexOf(undefined) is -1.
BoardAssignment(slots, iconBag) ==
    [i \in DOMAIN slots |-> IF i \in DOMAIN iconBag THEN iconBag[i] ELSE EMPTY]

\* The closure a builder passes as getClickableSlots.
LevelClosure(level) == IF level = 2 THEN "level2" ELSE "level3"

\* The builder when it starts: bestAssignment null, solvable false, the bag
\* filled, tryNum 0.
StartBuilder(level) ==
    [pc |-> "try", level |-> level, tryNum |-> 0, iconBag |-> IconBag(level),
     bestAssignment |-> <<>>, solvable |-> FALSE, calls |-> 0]

\* Mutant: the break is missing, so the loop goes on after a Solvable call.
TryStep_NoBreak(b, bag, solved) ==
    [b EXCEPT !.iconBag = bag,
              !.bestAssignment = bag,
              !.solvable = @ \/ solved,
              !.tryNum = @ + 1,
              !.calls = @ + 1]

\* The rest of a pass of the try loop once isSolvable has returned:
\* bestAssignment = [...iconBag] either way, and break when solvable.
TryStep(b, bag, solved) ==
    IF solved
    THEN [b EXCEPT !.iconBag = bag,
                   !.bestAssignment = bag,
                   !.solvable = TRUE,
                   !.pc = "assign",
                   !.calls = @ + 1]
    ELSE [b EXCEPT !.iconBag = bag,
                   !.bestAssignment = bag,
                   !.tryNum = @ + 1,
                   !.calls = @ + 1]

\* One pass of `for (tryNum ...)`: the bag is shuffled, the assignment is
\* made of it and isSolvable is called on the assignment.
TryAssignment ==
    /\ game.builder.pc = "try"
    /\ game.builder.tryNum < MAX_TRIES
    /\ \E bag \in ShuffledBags(game.builder.level) :
        LET level == game.builder.level
            boardAssignment == BoardAssignment(LevelSlots(level), bag)
            returned == beamSearchSolve(boardAssignment, LevelClosure(level),
                                        AuthoringParams)
        IN  /\ initialBoard' = boardAssignment
            /\ getClickableSlots' = LevelClosure(level)
            /\ params' = AuthoringParams
            /\ frame' = returned
            /\ game' = [game EXCEPT
                        !.builder = TryStep(@, bag, returned.result.solvable)]
    /\ UNCHANGED call

\* The try loop is over, by its break or by its bound: the tiles are made of
\* bestAssignment, slot by slot, and initGame goes on to updateBlocking.
AssignIcons ==
    /\ \/ game.builder.pc = "assign"
       \/ (game.builder.pc = "try" /\ game.builder.tryNum >= MAX_TRIES)
    /\ game' = updateBlocking(
                [game EXCEPT
                    !.tiles = BuildTiles(LevelSlots(game.builder.level),
                                         game.builder.bestAssignment),
                    !.builtLevel = game.builder.level,
                    !.builder.pc = "done"])
    /\ UNCHANGED <<initialBoard, getClickableSlots, params, frame, call>>

\* initGame(false) has reached the builder of level 2 or of level 3.
InitAuthoring ==
    /\ NoSolve
    /\ call = NoCall
    /\ \E level \in {2, 3} :
        game = [NoGame EXCEPT !.currentLevel = level,
                              !.builder = StartBuilder(level)]

NextAuthoring ==
    \/ TryAssignment
    \/ AssignIcons

SpecAuthoring == InitAuthoring /\ [][NextAuthoring]_vars

Returned == frame.pc = "done"

ReturnedSolvable == Returned /\ frame.result.solvable

ReturnedUnsolvable == Returned /\ ~frame.result.solvable

\* Replaying moves from position i on: every chosen position must be among the
\* collaborator's clickable slots of the then-current board and hold a piece;
\* the move empties it, appends its type to the tray and resolves triples.
RECURSIVE Replay(_, _, _, _, _)
Replay(click, board, tray, moves, i) ==
    IF i > Len(moves) THEN [valid |-> TRUE, board |-> board, tray |-> tray]
    ELSE LET pos == moves[i]
         IN  IF /\ pos \in Range(ClickableSlots(click, board))
                /\ pos + 1 \in DOMAIN board
                /\ board[pos + 1] # EMPTY
             THEN Replay(click,
                         [board EXCEPT ![pos + 1] = EMPTY],
                         resolveTrayTriples(Append(tray, board[pos + 1])).tray,
                         moves, i + 1)
             ELSE [valid |-> FALSE, board |-> board, tray |-> tray]

ReplayWins(click, board, moves) ==
    LET end == Replay(click, board, <<>>, moves, 1)
    IN  end.valid /\ CountPieces(end.board) = 0 /\ end.tray = <<>>

\* C1: whenever the call returns Solvable, replaying winningMoves from
\* initialBoard picks a clickable, non-empty position at every step and ends
\* with no piece on the board and an empty tray.
C1_PathValidity ==
    ReturnedSolvable =>
        ReplayWins(getClickableSlots, initialBoard, frame.result.winningMoves)

C1_Witness ==
    /\ ReturnedSolvable
    /\ Len(frame.result.winningMoves) = 3
    /\ ReplayWins(getClickableSlots, initialBoard, frame.result.winningMoves)

\* C2: in every state of a call the expansion counter is at most the
\* effective maxExpansions, and so is stats.expansionsUsed of every result.
C2_BudgetConservation ==
    /\ frame.expansions <= maxExpansions(params)
    /\ Returned => frame.result.stats.expansionsUsed <= maxExpansions(params)

\* A configured budget was spent to the last unit and cut the search short.
C2_Witness ==
    /\ ReturnedUnsolvable
    /\ params.maxExpansions > 1
    /\ CountPieces(initialBoard) = 3
    /\ frame.result.stats.expansionsUsed = maxExpansions(params)

\* C3 (as claimed): once the beam being processed holds a solved node, the
\* call returns Solvable with a solved node's move path, whatever the state of
\* the expansion budget.
C3_SolvedNodeRecognised ==
    (frame.pc = "node" /\ \E i \in DOMAIN frame.beam : IsSolved(frame.beam[i])) =>
        LET r == RunFrame(getClickableSlots, params, frame, 16).result
        IN  /\ r.solvable
            /\ \E i \in DOMAIN frame.beam :
                    IsSolved(frame.beam[i]) /\ r.winningMoves = frame.beam[i].moves

\* C4 (as claimed): a call that returns Solvable with a configured beamWidth
\* w returns Solvable with every beamWidth w' > w, the rest unchanged.
WiderBeams == (params.beamWidth + 1)..(MaxBeamWidth + 1)

WithBeamWidth(w) ==
    beamSearchSolve(initialBoard, getClickableSlots, [params EXCEPT !.beamWidth = w])

C4_BeamWidthMonotone ==
    (ReturnedSolvable /\ params.beamWidth >= 1) =>
        \A w \in WiderBeams : WithBeamWidth(w).result.solvable

\* C4 (amended): a call that returns Solvable with a configured beamWidth w
\* returns Solvable with every beamWidth w' > w for which the wider search
\* drops no candidate (no depth yields more than w' candidates) and ends with
\* expansionsUsed below maxExpansions.
C4_BeamWidthMonotoneUntruncated ==
    (ReturnedSolvable /\ params.beamWidth >= 1) =>
        \A w \in WiderBeams :
            LET wide == WithBeamWidth(w)
            IN  \/ wide.result.solvable
                \/ wide.truncated
                \/ wide.result.stats.expansionsUsed >= maxExpansions(params)

\* The narrow search dropped candidates and still won; a wider one that
\* drops none and stays within budget wins too.
C4_Witness ==
    /\ ReturnedSolvable
    /\ params.beamWidth >= 1
    /\ frame.truncated
    /\ \E w \in WiderBeams :
            LET wide == WithBeamWidth(w)
            IN  /\ wide.result.solvable
                /\ ~wide.truncated
                /\ wide.result.stats.expansionsUsed < maxExpansions(params)

\* C5: a call that returns Solvable with a configured maxExpansions e returns
\* Solvable with the same winningMoves for every maxExpansions e' > e, the
\* rest unchanged.
LargerBudgets == (params.maxExpansions + 1)..(MaxLevelExpansions + 1)

WithMaxExpansions(e) ==
    isSolvable(initialBoard, getClickableSlots, [params EXCEPT !.maxExpansions = e])

C5_MaxExpansionsMonotone ==
    (ReturnedSolvable /\ params.maxExpansions >= 1) =>
        \A e \in LargerBudgets :
            /\ WithMaxExpansions(e).solvable
            /\ WithMaxExpansions(e).winningMoves = frame.result.winningMoves

\* A search that branches (more than one expansion per move) wins within a
\* configured budget that larger budgets exist for.
C5_Witness ==
    /\ ReturnedSolvable
    /\ params.maxExpansions >= 1
    /\ frame.expansions > Len(frame.result.winningMoves)
    /\ LargerBudgets # {}
    /\ \A e \in LargerBudgets : WithMaxExpansions(e).solvable

\* C6: a call that returns Solvable with a configured maxDepth d returns
\* Solvable with the same winningMoves for every maxDepth d' > d, the rest
\* unchanged.
DeeperLimits == (params.maxDepth + 1)..(MaxLevelDepth + 1)

WithMaxDepth(d) ==
    isSolvable(initialBoard, getClickableSlots, [params EXCEPT !.maxDepth = d])

C6_MaxDepthMonotone ==
    (ReturnedSolvable /\ params.maxDepth >= 1) =>
        \A d \in DeeperLimits :
            /\ WithMaxDepth(d).solvable
            /\ WithMaxDepth(d).winningMoves = frame.result.winningMoves

C6_Witness ==
    /\ ReturnedSolvable
    /\ params.maxDepth >= 1
    /\ frame.expansions > Len(frame.result.winningMoves)
    /\ DeeperLimits # {}
    /\ \A d \in DeeperLimits : WithMaxDepth(d).solvable

\* C7 (as claimed): a solved node produced by exactly maxDepth moves is
\* within range, so the call returns Solvable with its path.
C7_MaxDepthMovesInRange ==
    (/\ Returned
     /\ frame.depth = maxDepth(params)
     /\ \E i \in DOMAIN frame.beam :
            IsSolved(frame.beam[i]) /\ Len(frame.beam[i].moves) = maxDepth(params))
    => /\ frame.result.solvable
       /\ \E i \in DOMAIN frame.beam :
            IsSolved(frame.beam[i]) /\ frame.result.winningMoves = frame.beam[i].moves

DefaultParams == [beamWidth |-> 0, maxExpansions |-> 0, maxDepth |-> 0]

TripleScenario ==
    /\ initialBoard = TripleBoard
    /\ getClickableSlots = "all"
    /\ params = DefaultParams

\* C8: for board [0,0,0], every position always selectable and the default
\* configuration, the call returns Solvable with three winning moves that are
\* a permutation of the positions 0, 1, 2.
C8_TripleBoardSolvable ==
    (TripleScenario /\ Returned) =>
        /\ frame.result.solvable
        /\ Len(frame.result.winningMoves) = 3
        /\ Range(frame.result.winningMoves) = {0, 1, 2}

C8_Witness ==
    TripleScenario /\ ReturnedSolvable /\ frame.result.stats.depth = 3

\* C9 (as claimed): in the same scenario the Solvable result reports
\* stats.bestScore >= 100.
C9_TripleBoardBestScore ==
    (TripleScenario /\ Returned) =>
        frame.result.solvable /\ frame.result.stats.bestScore >= 100

\* C10: for the board of eight distinct types the call returns Unsolvable
\* under every collaborator and configuration; no node ever has a triple
\* cleared (its tray holds one entry per move) and none has a tray longer
\* than 7.
NodesOf(f) == Range(f.beam) \cup Range(f.candidates)

C10_DistinctBoardUnsolvable ==
    initialBoard = DistinctBoard =>
        /\ Returned => ~frame.result.solvable
        /\ \A n \in NodesOf(frame) :
                Len(n.tray) = Len(n.moves) /\ Len(n.tray) <= TRAY_CAPACITY

\* The search went through all eight depths: the trays of length 7 were
\* expanded and every child was pruned.
C10_Witness ==
    /\ initialBoard = DistinctBoard
    /\ ReturnedUnsolvable
    /\ frame.depth = 8
    /\ frame.beam = <<>>
    /\ frame.expansions < maxExpansions(params)

\* Every step of a call is the step the code's control flow prescribes.
StepsFollowCode ==
    [][frame' = StepFrame(getClickableSlots, params, frame)]_vars

(* ----------------------------------------- claims on resolveTrayTriples *)

CallReturned == call.pc = "done"

\* The reference rule in closed form: of every type x the earliest
\* 3 * (count of x \div 3) occurrences go, the rest stay in their order.
ReferenceKept(t) ==
    {i \in DOMAIN t :
        Cardinality({j \in 1..i : t[j] = t[i]}) > 3 * (Count(t, t[i]) \div 3)}

ReferenceTray(t) ==
    LET kept == Ascending(ReferenceKept(t))
    IN  [k \in 1..Len(kept) |-> t[kept[k]]]

\* C11: a returned resolveTrayTriples call has the tray of the reference
\* rule (the entries left keep their order, no type is left with count >= 3),
\* clearedCount is 3 times the number of removals and the input length minus
\* the output length, clearedIcons holds every type once per removal, and the
\* call agrees with the function the solver applies; [A,A,A] gives the empty
\* tray, 3 and [A], and [A,A,A,A] gives [A].
C11_ReferenceRule ==
    /\ call.clearedCount = Len(call.trayIconIndices) - Len(call.tray)
    /\ call.clearedCount = 3 * Len(call.clearedIcons)
    /\ CallReturned =>
        /\ call.tray = ReferenceTray(call.trayIconIndices)
        /\ \A x \in Range(call.tray) : Count(call.tray, x) < 3
        /\ \A x \in Range(call.trayIconIndices) :
                Count(call.clearedIcons, x) = Count(call.trayIconIndices, x) \div 3
        /\ Range(call.clearedIcons) \subseteq Range(call.trayIconIndices)
        /\ resolveTrayTriples(call.trayIconIndices) =
                [tray |-> call.tray, clearedCount |-> call.clearedCount,
                 clearedIcons |-> call.clearedIcons]
        /\ call.trayIconIndices = <<0, 0, 0>> =>
                call.tray = <<>> /\ call.clearedCount = 3 /\ call.clearedIcons = <<0>>
        /\ call.trayIconIndices = <<0, 0, 0, 0>> => call.tray = <<0>>

\* Two removals happened and entries of two kinds are left around them.
C11_Witness ==
    /\ CallReturned
    /\ call.clearedCount = 6
    /\ Len(call.tray) = 1
    /\ call.trayIconIndices[Len(call.trayIconIndices)] # call.tray[1]

\* C12: on every pass the type cleared is the smallest of the types with
\* count >= 3, wherever they sit in the tray: whatever was cleared so far is
\* no larger than any type that still qualifies, clearedIcons is in
\* non-decreasing order, and three 2s followed by three 0s clear 0, then 2.
C12_TieBreakSmallest ==
    /\ \A i \in DOMAIN call.clearedIcons :
        \A x \in {y \in Range(call.tray) : Count(call.tray, y) >= 3} :
            call.clearedIcons[i] <= x
    /\ \A i, j \in DOMAIN call.clearedIcons :
            i < j => call.clearedIcons[i] <= call.clearedIcons[j]
    /\ (CallReturned /\ call.trayIconIndices = <<2, 2, 2, 0, 0, 0>>) =>
            call.clearedIcons = <<0, 2>>

C12_Witness ==
    /\ CallReturned
    /\ call.trayIconIndices = <<2, 2, 2, 0, 0, 0>>
    /\ call.clearedIcons = <<0, 2>>
    /\ call.tray = <<>>

\* C13: resolving the tray a call returned gives that tray back with
\* clearedCount 0 and no clearedIcons; a tray without a type of count >= 3 is
\* returned unchanged.
C13_Idempotent ==
    CallReturned =>
        /\ RunCall(StartCall(call.tray)) =
                [pc |-> "done", trayIconIndices |-> call.tray, tray |-> call.tray,
                 clearedCount |-> 0, clearedIcons |-> <<>>]
        /\ (\A x \in Range(call.trayIconIndices) :
                Count(call.trayIconIndices, x) < 3) =>
                call.tray = call.trayIconIndices /\ call.clearedCount = 0

\* A call that cleared a triple and left entries, of which one is there twice.
C13_Witness ==
    /\ CallReturned
    /\ call.clearedCount = 3
    /\ \E x \in Range(call.tray) : Count(call.tray, x) = 2
    /\ RunCall(StartCall(call.tray)).tray = call.tray

Alternating(t) ==
    /\ Len(t) = 6
    /\ t[1] # t[2]
    /\ \A i \in 1..4 : t[i + 2] = t[i]

\* C14 (as claimed): for the tray [A,B,A,B,A,B] with A # B the call returns
\* the tray unchanged with clearedCount 0.
C14_AlternatingNoOp ==
    (CallReturned /\ Alternating(call.trayIconIndices)) =>
        call.tray = call.trayIconIndices /\ call.clearedCount = 0

\* C14 (amended): for the tray [A,B,A,B,A,B] with A # B both types have
\* count 3, so the call clears both: it returns the empty tray, clearedCount
\* 6 and clearedIcons holding the smaller of A and B, then the larger.
C14_AlternatingCleared ==
    (CallReturned /\ Alternating(call.trayIconIndices)) =>
        /\ call.tray = <<>>
        /\ call.clearedCount = 6
        /\ Len(call.clearedIcons) = 2
        /\ Range(call.clearedIcons) = Range(call.trayIconIndices)
        /\ call.clearedIcons[1] < call.clearedIcons[2]

C14_Witness ==
    /\ CallReturned
    /\ call.trayIconIndices = <<1, 0, 1, 0, 1, 0>>
    /\ call.clearedIcons = <<0, 1>>

(* ------------------------------------------------ claims on a solve call *)

\* C15: a call returns what the same call returns when it is the only one
\* ever made (solvable, winningMoves, expansionsUsed, bestScore, depth),
\* whatever calls returned before it, and it starts from a transposition
\* table and a beam that hold the initial node alone.
C15_CallIndependent ==
    /\ (frame.pc = "loop" /\ frame.depth = 0) =>
            /\ frame.visited = StartFrame(initialBoard).visited
            /\ frame.beam = <<initialNode(initialBoard)>>
            /\ frame.expansions = 0
    /\ Returned =>
            frame.result = isSolvable(initialBoard, getClickableSlots, params)

\* A later call of a session found a solution by a search that branched.
C15_Witness ==
    /\ ReturnedSolvable
    /\ frame.afterCall
    /\ frame.expansions > Len(frame.result.winningMoves)
    /\ frame.result = isSolvable(initialBoard, getClickableSlots, params)

\* C16 (as claimed): stats.bestScore of every result is the highest score of
\* the nodes that have been in a beam, the initial node included.
C16_BestScoreIsBestSeen ==
    Returned => frame.result.stats.bestScore = frame.bestSeen

\* C17: every call returns; on the way its depth counter never passes
\* maxDepth and its expansion counter never passes maxExpansions; Solvable is
\* returned only from the win check of a beam node, with that node's moves;
\* Unsolvable is returned only with the depth limit reached or the beam empty
\* (where an exhausted budget leaves it).
C17_Terminates ==
    /\ <>Returned
    /\ [](/\ frame.depth <= maxDepth(params)
          /\ frame.expansions <= maxExpansions(params)
          /\ Returned => frame.result.solvable \in BOOLEAN
          /\ ReturnedSolvable =>
                /\ frame.nodeIdx \in DOMAIN frame.beam
                /\ IsSolved(frame.beam[frame.nodeIdx])
                /\ frame.result.winningMoves = frame.beam[frame.nodeIdx].moves
          /\ ReturnedUnsolvable =>
                \/ frame.depth = maxDepth(params)
                \/ frame.beam = <<>>)

\* A call that spent its whole budget in the middle of a depth returned
\* Unsolvable: the candidates it had were dropped with the break.
C17_Witness ==
    /\ ReturnedUnsolvable
    /\ frame.expansions = maxExpansions(params)
    /\ frame.depth < maxDepth(params)
    /\ frame.beam = <<>>
    /\ frame.depth >= 3

\* C18: the winningMoves of a call that returned Solvable, clicked in order
\* in the game on the same board without tools, never fill the tray (the
\* game's tray-full check stays silent) and leave no tile on the board and an
\* empty tray.
C18_MovesWinTheGame ==
    ReturnedSolvable =>
        LET end == PlayMoves(BoardAsLevel(initialBoard), frame.result.winningMoves, 1)
        IN  /\ ~TrayFull(end)
            /\ Len(BoardTiles(end)) = 0
            /\ end.tray = <<>>

\* C19: the level counter is the level of the board on show, or one more once
\* that board has been cleared (the next board is then about to be built), so
\* no level is skipped and a win is counted once; the win modal is on show
\* only over a cleared board of level 3.
C19_LevelsInOrder ==
    /\ game.currentLevel \in {game.builtLevel, game.builtLevel + 1}
    /\ game.currentLevel = game.builtLevel + 1 =>
            Len(BoardTiles(game)) = 0 /\ game.tray = <<>>
    /\ game.modal = "win" =>
            /\ game.builtLevel = 3
            /\ Len(BoardTiles(game)) = 0
            /\ game.tray = <<>>

\* C20: a tool that has taken effect since the game was started takes effect
\* no more in that game: no step sets its toolsUsed flag again.
C20_ToolOncePerGame ==
    [][\A t \in Tools :
        t \in game.usedThisGame => ~(~game.toolsUsed[t] /\ game'.toolsUsed[t])]_vars

\* A step in which a click moved tile t from the board to the tray.
Picked(t) ==
    /\ t + 1 \in DOMAIN game.tiles
    /\ t + 1 \in DOMAIN game'.tiles
    /\ game.tiles[t + 1].location = "BOARD"
    /\ game'.tiles[t + 1].location # "BOARD"
    /\ Len(game'.undoHistory) = Len(game.undoHistory) + 1

\* A step in which Undo took effect.
UndoTookEffect == ~game.toolsUsed.undo /\ game'.toolsUsed.undo

\* C21: the undo history changes only by a pick, which adds a record of the
\* picked tile's slot and position and of the tray before the pick, by Undo,
\* which removes the last record, and by a new board; when Undo takes effect
\* the tile of the last record (the most recent pick) is on the board at the
\* recorded slot and position, the tray is the recorded tray with all its
\* tiles in the tray, and the record is gone, whatever tools were used since.
C21_UndoReversesLastPick ==
    [][/\ \A t \in 0..(Len(game.tiles) - 1) :
            Picked(t) =>
                LET entry == game'.undoHistory[Len(game'.undoHistory)]
                IN  /\ SubSeq(game'.undoHistory, 1, Len(game.undoHistory))
                            = game.undoHistory
                    /\ entry.tileId = t
                    /\ entry.fromSlotId = game.tiles[t + 1].slotId
                    /\ entry.fromX = game.tiles[t + 1].x
                    /\ entry.fromZ = game.tiles[t + 1].z
                    /\ entry.traySnapshotBefore = game.tray
       /\ UndoTookEffect =>
            /\ game.undoHistory # <<>>
            /\ LET entry == game.undoHistory[Len(game.undoHistory)]
                    tile == game'.tiles[entry.tileId + 1]
               IN  /\ game'.undoHistory
                        = SubSeq(game.undoHistory, 1, Len(game.undoHistory) - 1)
                   /\ tile.location = "BOARD"
                   /\ tile.slotId = entry.fromSlotId
                   /\ tile.x = entry.fromX
                   /\ tile.z = entry.fromZ
                   /\ game'.tray = entry.traySnapshotBefore
                   /\ \A i \in DOMAIN game'.tiles :
                        game'.tiles[i].location = "TRAY"
                            <=> game'.tiles[i].id \in Range(game'.tray)
       /\ (~UndoTookEffect /\ ~\E t \in 0..(Len(game.tiles) - 1) : Picked(t)) =>
            game'.undoHistory \in {game.undoHistory, <<>>}]_vars

\* Undo has taken effect after a pick that cleared a triple and a Remove that
\* took the three tiles the pick left in the tray: the five tiles the tray
\* held before the pick are back in it, three of them from the removed slots.
C21_Witness ==
    /\ game.builtLevel = 3
    /\ game.toolsUsed.undo
    /\ game.toolsUsed.remove
    /\ Len(game.undoHistory) = 5
    /\ Len(game.tray) = 5
    /\ Cardinality({i \in DOMAIN game.tray :
            InRemovedSlot(game.tiles[game.tray[i] + 1])}) = 3

\* C22: a pick that leaves seven or fewer tiles in the tray after the triples
\* are resolved does not end the game.
C22_SevenTilesFit ==
    [][\A t \in 0..(Len(game.tiles) - 1) :
        (Picked(t) /\ Len(game'.tray) <= 7) => ~game'.gameOver]_vars

\* The number of tray tiles of an icon.
TrayCount(g, icon) ==
    Cardinality({i \in DOMAIN g.tray : g.tiles[g.tray[i] + 1].icon = icon})

TrayIcons(g) == {g.tiles[g.tray[i] + 1].icon : i \in DOMAIN g.tray}

\* C23: after every step of the game (a pick, Undo and Remove among them) no
\* icon is three or more times in the tray; and a pick of a tile whose icon
\* is twice in the tray takes those two tiles out of the tray and marks them
\* and the picked tile CLEARED, the rest of the tray staying as it was.
C23_NoTripleStays ==
    [][/\ \A icon \in TrayIcons(game') : TrayCount(game', icon) < 3
       /\ \A t \in 0..(Len(game.tiles) - 1) :
            (Picked(t) /\ TrayCount(game, game.tiles[t + 1].icon) = 2) =>
                LET icon == game.tiles[t + 1].icon
                    gone == {t} \cup {id \in Range(game.tray) :
                                game.tiles[id + 1].icon = icon}
                IN  /\ \A id \in gone : game'.tiles[id + 1].location = "CLEARED"
                    /\ game'.tray = SeqFilter(game.tray, LAMBDA id : id \notin gone)]_vars

\* A pick has cleared a triple of two tiles from the front of the tray and
\* the picked tile, three tiles of two other icons staying in the tray.
C23_Witness ==
    /\ game.builtLevel = 3
    /\ Len(game.undoHistory) = 6
    /\ Len(game.tray) = 3
    /\ Cardinality(TrayIcons(game)) = 2
    /\ Cardinality({i \in DOMAIN game.tiles : game.tiles[i].location = "CLEARED"}) = 3
    /\ ~game.toolsUsed.remove

\* C24: a click moves a tile to the tray only when the game is not over, the
\* tile is on the board and, as the board stands at the click, the tile is
\* in a removed slot or no board tile of higher z overlaps it.
C24_OnlyFreeTilesPicked ==
    [][\A t \in 0..(Len(game.tiles) - 1) :
        Picked(t) =>
            /\ ~game.gameOver
            /\ game.tiles[t + 1].location = "BOARD"
            /\ InRemovedSlot(game.tiles[t + 1]) \/ ~IsCovered(game, game.tiles[t + 1])]_vars

\* Two tiles of level 1 were picked before the callback of the first pick
\* ran: the tile they uncovered still bears its blocked mark.
C24_Witness ==
    /\ game.builtLevel = 1
    /\ Len(game.tray) = 2
    /\ Len(game.timers) = 2
    /\ \E i \in DOMAIN game.tiles :
        /\ game.tiles[i].location = "BOARD"
        /\ game.tiles[i].blocked
        /\ ~IsCovered(game, game.tiles[i])

\* A step of the driver that applied a move and kept its candidate; the
\* candidate, its parent, and the pieces the move's resolution cleared.
CandidateAdded ==
    /\ frame.pc = "slot"
    /\ frame'.pc = "slot"
    /\ Len(frame'.candidates) = Len(frame.candidates) + 1

AddedCandidate == frame'.candidates[Len(frame'.candidates)]

ParentNode == frame.beam[frame.nodeIdx]

ClearedByMove == Len(ParentNode.tray) + 1 - Len(AddedCandidate.tray)

\* The components of a score increment other than the triple bonus.
OtherComponents(tray, prevTray, removed) ==
    12 * Cardinality({x \in Range(tray) : Count(tray, x) = 2})
    - 8 * Cardinality(Range(tray) \ Range(prevTray))
    - 3 * Len(tray)
    + 5 * removed

\* C25: a move whose resolution clears k >= 1 full triples raises the score
\* by 100 * k on top of the other components of its increment.
C25_TripleBonus ==
    [][(CandidateAdded /\ ClearedByMove >= 3) =>
            AddedCandidate.score - ParentNode.score
                = 100 * (ClearedByMove \div 3)
                  + OtherComponents(AddedCandidate.tray, ParentNode.tray,
                        CountPieces(ParentNode.board)
                            - CountPieces(AddedCandidate.board))]_vars

\* C26: a move that clears no triple raises the score by 12 for every type
\* twice in the resulting tray, less 8 for every type of the resulting tray
\* that was not in the tray before, less 3 for every tray entry, plus 5 for
\* every piece taken off the board; the candidate's score is its parent's
\* plus that.
C26_PlainIncrement ==
    [][(CandidateAdded /\ ClearedByMove = 0) =>
            AddedCandidate.score
                = ParentNode.score
                  + OtherComponents(AddedCandidate.tray, ParentNode.tray,
                        CountPieces(ParentNode.board)
                            - CountPieces(AddedCandidate.board))]_vars

\* A candidate whose tray holds a pair next to a piece of another type: the
\* pair was rewarded, the third piece penalized as new.
C26_Witness ==
    /\ frame.pc = "slot"
    /\ \E i \in DOMAIN frame.candidates :
        LET c == frame.candidates[i]
        IN  /\ Len(c.tray) = 3
            /\ c.tray[1] = c.tray[2]
            /\ c.tray[3] # c.tray[1]
            /\ c.score = (0 - 8 - 3 + 5) + (12 - 6 + 5) + (12 - 8 - 9 + 5)

\* The node a move on a slot makes of a node, and whether the move gets as
\* far as the transposition check (the slot holds a piece, the tray fits).
MoveCandidate(node, slot) ==
    LET newBoard == [node.board EXCEPT ![slot + 1] = EMPTY]
        tray == resolveTrayTriples(Append(node.tray, node.board[slot + 1])).tray
    IN  [board |-> newBoard,
         tray |-> tray,
         score |-> node.score + scoreState(newBoard, tray, node.tray,
                        CountPieces(node.board), CountPieces(newBoard)),
         moves |-> Append(node.moves, slot),
         depth |-> node.depth + 1,
         hash |-> hashState(newBoard, tray)]

MoveGenerated(node, slot) ==
    /\ node.board[slot + 1] # EMPTY
    /\ Len(MoveCandidate(node, slot).tray) <= TRAY_CAPACITY

\* A step of the driver through the body of its slot loop.
SlotStep ==
    /\ frame.pc = "slot"
    /\ frame'.pc = "slot"
    /\ frame'.slotIdx = frame.slotIdx + 1

\* C27: a generated candidate is discarded, the table staying as it is, when
\* the table has an entry for its signature with score >= its score and tray
\* length <= its tray length; in every other case it is added to the depth's
\* candidates and the entry of its signature becomes its score and tray
\* length, the other entries staying as they are.
C27_PruningRule ==
    [][(SlotStep /\ MoveGenerated(ParentNode, frame.clickableSlots[frame.slotIdx])) =>
        LET c == MoveCandidate(ParentNode, frame.clickableSlots[frame.slotIdx])
            known == /\ c.hash \in DOMAIN frame.visited
                     /\ frame.visited[c.hash].score >= c.score
                     /\ frame.visited[c.hash].trayLen <= Len(c.tray)
        IN  IF known
            THEN /\ frame'.candidates = frame.candidates
                 /\ frame'.visited = frame.visited
            ELSE /\ frame'.candidates = Append(frame.candidates, c)
                 /\ DOMAIN frame'.visited = DOMAIN frame.visited \cup {c.hash}
                 /\ frame'.visited[c.hash] = [score |-> c.score, trayLen |-> Len(c.tray)]
                 /\ \A h \in DOMAIN frame.visited \ {c.hash} :
                        frame'.visited[h] = frame.visited[h]]_vars

\* The move on the slot just passed was generated and is not among the
\* candidates: its signature was in the table with a score as high.
C27_Witness ==
    /\ frame.pc = "slot"
    /\ frame.slotIdx > 1
    /\ LET node == frame.beam[frame.nodeIdx]
           slot == frame.clickableSlots[frame.slotIdx - 1]
       IN  /\ MoveGenerated(node, slot)
           /\ \A i \in DOMAIN frame.candidates :
                frame.candidates[i].moves # Append(node.moves, slot)
           /\ frame.visited[MoveCandidate(node, slot).hash].score
                = MoveCandidate(node, slot).score

\* C28: the table starts with the initial state's signature at score 0 and
\* tray length 0, before any expansion; no step of a call removes an entry,
\* and a step that changes an entry strictly raises its score.
C28_TableOnlyImproves ==
    /\ frame.expansions = 0
    /\ frame.visited = (hashState(initialBoard, <<>>) :> [score |-> 0, trayLen |-> 0])
    /\ [][/\ DOMAIN frame.visited \subseteq DOMAIN frame'.visited
           /\ \A h \in DOMAIN frame.visited :
                frame'.visited[h] # frame.visited[h] =>
                    frame'.visited[h].score > frame.visited[h].score]_vars

\* An entry has been updated: a candidate of this depth has the signature of
\* the entry and a lower score than the entry records now.
C28_Witness ==
    \E i \in DOMAIN frame.candidates :
        LET c == frame.candidates[i]
        IN  /\ c.hash \in DOMAIN frame.visited
            /\ frame.visited[c.hash].score > c.score

\* C29: a pass of the slot loop over a selectable position whose slot is
\* already empty consumes no budget, and a pass that applies a move consumes
\* one unit.
C29_BudgetPerAppliedMove ==
    [][SlotStep =>
        LET slot == frame.clickableSlots[frame.slotIdx]
        IN  frame'.expansions =
                IF ParentNode.board[slot + 1] = EMPTY THEN frame.expansions
                ELSE frame.expansions + 1]_vars

\* C30: a pass of the slot loop over a position out of range of the board
\* adds no candidate; no node has a board longer than the caller's or a tray
\* entry that is not a piece of the board.
C30_OutOfRangeSkipped ==
    /\ \A n \in NodesOf(frame) :
        /\ Len(n.board) = Len(initialBoard)
        /\ Range(n.tray) \subseteq Range(initialBoard) \ {EMPTY}
    /\ (frame.pc = "slot" /\ frame.slotIdx > 1) =>
        LET slot == frame.clickableSlots[frame.slotIdx - 1]
        IN  slot + 1 \notin DOMAIN frame.beam[frame.nodeIdx].board =>
                \A i \in DOMAIN frame.candidates :
                    frame.candidates[i].moves
                        # Append(frame.beam[frame.nodeIdx].moves, slot)

\* The candidates generated at the depth just processed, in the order they
\* were pushed, and the frontier cut from them.
DepthProcessed == frame.pc = "loop" /\ frame.depth > 0

\* Candidate j comes ahead of candidate i: a higher score, or the same score
\* and generated sooner.
Ahead(cands, j, i) ==
    \/ cands[j].score > cands[i].score
    \/ (cands[j].score = cands[i].score /\ j < i)

\* C31: after a depth is processed the next frontier holds at most beamWidth
\* nodes: the beamWidth highest-scoring candidates of the depth (all of them
\* when there are fewer), in descending score order, candidates of equal
\* score in their order of generation; no candidate left out has a strictly
\* higher score than a node of the frontier.
C31_BeamTruncation ==
    DepthProcessed =>
        LET cands == frame.candidates
            beam == frame.beam
            width == beamWidth(params)
        IN  /\ Len(beam) <= width
            /\ Len(beam) = IF Len(cands) < width THEN Len(cands) ELSE width
            /\ \A k \in DOMAIN beam :
                    \E i \in DOMAIN cands :
                        /\ beam[k] = cands[i]
                        /\ Cardinality({j \in DOMAIN cands : Ahead(cands, j, i)})
                                = k - 1
            /\ \A k \in DOMAIN beam : \A l \in DOMAIN beam :
                    k < l => beam[k].score >= beam[l].score
            /\ \A i \in DOMAIN cands :
                    (\A k \in DOMAIN beam : beam[k] # cands[i]) =>
                        \A k \in DOMAIN beam : cands[i].score <= beam[k].score

\* A depth whose cut dropped a candidate, reordered the kept ones and broke
\* a tie: a dropped candidate has the score of a kept one.
C31_Witness ==
    /\ DepthProcessed
    /\ Len(frame.candidates) > Len(frame.beam)
    /\ \E k \in DOMAIN frame.beam : frame.beam[k] # frame.candidates[k]
    /\ \E i \in DOMAIN frame.candidates :
            /\ \A k \in DOMAIN frame.beam : frame.beam[k] # frame.candidates[i]
            /\ \E k \in DOMAIN frame.beam :
                    frame.beam[k].score = frame.candidates[i].score

\* The tray a move on a slot leaves, resolved.
ResolvedTray(node, slot) ==
    resolveTrayTriples(Append(node.tray, node.board[slot + 1])).tray

\* C32: in every node of every frontier and in every candidate kept the tray
\* holds at most 7 entries, and so does every tray length the table records;
\* when the pass of the slot loop just made resolved a tray longer than 7,
\* its move is among no candidates and its signature is not in the table.
C32_TrayWithinCapacity ==
    /\ \A n \in NodesOf(frame) : Len(n.tray) <= 7
    /\ \A h \in DOMAIN frame.visited : frame.visited[h].trayLen <= 7
    /\ (frame.pc = "slot" /\ frame.slotIdx > 1) =>
        LET node == frame.beam[frame.nodeIdx]
            slot == frame.clickableSlots[frame.slotIdx - 1]
        IN  (node.board[slot + 1] # EMPTY /\ Len(ResolvedTray(node, slot)) > 7) =>
                /\ \A i \in DOMAIN frame.candidates :
                        frame.candidates[i].moves # Append(node.moves, slot)
                /\ hashState([node.board EXCEPT ![slot + 1] = EMPTY],
                             ResolvedTray(node, slot)) \notin DOMAIN frame.visited

\* The slot just passed held a piece whose pick left a resolved tray of
\* eight: the candidate was discarded.
C32_Witness ==
    /\ frame.pc = "slot"
    /\ frame.slotIdx > 1
    /\ LET node == frame.beam[frame.nodeIdx]
           slot == frame.clickableSlots[frame.slotIdx - 1]
       IN  /\ node.board[slot + 1] # EMPTY
           /\ Len(ResolvedTray(node, slot)) > 7
           /\ \A i \in DOMAIN frame.candidates :
                frame.candidates[i].moves # Append(node.moves, slot)

\* The candidates pushed from the frontier node under expansion: their move
\* paths are the node's path and one more position.
ChildrenOf(f) ==
    {c \in Range(f.candidates) :
        /\ Len(c.moves) = Len(f.beam[f.nodeIdx].moves) + 1
        /\ SubSeq(c.moves, 1, Len(c.moves) - 1) = f.beam[f.nodeIdx].moves}

\* C33: in every node of every frontier, the initial node included, and in
\* every candidate no piece type occurs 3 or more times in the tray; the
\* tray of a node is what resolveTrayTriples returned for its parent's tray
\* and the picked piece, its signature is the signature of its board and
\* that tray, and the table records that tray's length.
C33_NoUnresolvedNode ==
    /\ \A n \in NodesOf(frame) :
        /\ \A x \in Range(n.tray) : Count(n.tray, x) < 3
        /\ n.hash = hashState(n.board, n.tray)
        /\ n.hash \in DOMAIN frame.visited
        /\ frame.visited[n.hash].trayLen = Len(n.tray)
    /\ frame.pc = "slot" =>
        \A c \in ChildrenOf(frame) :
            c.tray = ResolvedTray(frame.beam[frame.nodeIdx], c.moves[Len(c.moves)])

\* A candidate whose pick completed a triple in a tray that held another
\* piece: the three are gone, the other piece is what is left.
C33_Witness ==
    /\ frame.pc = "slot"
    /\ \E c \in ChildrenOf(frame) :
        /\ Len(frame.beam[frame.nodeIdx].tray) = 3
        /\ Len(c.tray) = 1

\* C34: the initial node has an empty move path and depth 0; every node's
\* depth is the length of its move path; a Solvable result's stats.depth is
\* the length of its winningMoves.
C34_DepthIsPathLength ==
    /\ frame.depth = 0 =>
        /\ Len(frame.beam) = 1
        /\ frame.beam[1].board = initialBoard
        /\ frame.beam[1].moves = <<>>
        /\ frame.beam[1].depth = 0
    /\ \A n \in NodesOf(frame) : n.depth = Len(n.moves)
    /\ ReturnedSolvable =>
        frame.result.stats.depth = Len(frame.result.winningMoves)

\* A Solvable result after three moves.
C34_Witness ==
    /\ ReturnedSolvable
    /\ Len(frame.result.winningMoves) = 3
    /\ frame.result.stats.depth = 3

\* C35: no step of a solve call changes the caller's initialBoard; while a
\* depth is processed the frontier nodes stay as they are (board, tray, score
\* and move path) and so do the candidates already pushed; the frontier cut
\* at the end of a depth holds candidates as they were pushed; no step of a
\* resolveTrayTriples call changes the argument tray.
C35_NothingMutated ==
    [][/\ initialBoard' = initialBoard
       /\ call'.trayIconIndices = call.trayIconIndices
       /\ (frame.pc \in {"node", "slot"} /\ frame'.pc \in {"node", "slot", "done"}) =>
            /\ frame'.beam = frame.beam
            /\ \A i \in DOMAIN frame.candidates :
                    /\ i \in DOMAIN frame'.candidates
                    /\ frame'.candidates[i] = frame.candidates[i]
       /\ (frame.pc = "node" /\ frame'.pc = "loop") =>
            Range(frame'.beam) \subseteq Range(frame.candidates)
       /\ (frame.pc = "loop" /\ frame'.pc \in {"node", "done"}) =>
            frame'.beam = frame.beam]_vars

\* A frontier node past the initial one has been expanded into a candidate
\* and still holds the piece the candidate's move took; the caller's board
\* still holds every piece the search took.
C35_Witness ==
    /\ frame.pc = "slot"
    /\ frame.depth > 0
    /\ \E c \in ChildrenOf(frame) :
        /\ frame.beam[frame.nodeIdx].board[c.moves[Len(c.moves)] + 1] # EMPTY
        /\ c.board[c.moves[Len(c.moves)] + 1] = EMPTY
        /\ \A k \in DOMAIN c.moves : initialBoard[c.moves[k] + 1] # EMPTY

\* The icons of the tiles built, slot by slot.
BuiltIcons == [i \in DOMAIN game.tiles |-> game.tiles[i].icon]

\* C36: a builder of level 2 or 3 calls isSolvable at most 50 times; it is
\* still trying only while every call it made returned Unsolvable; the tiles
\* it builds carry the assignment of its last call, which is the one call
\* that returned Solvable or, when none did, the 50th.
C36_AuthoringLoop ==
    LET b == game.builder
    IN  /\ b.calls <= 50
        /\ b.pc = "try" =>
            /\ b.calls = b.tryNum
            /\ ~b.solvable
            /\ b.calls > 0 => ~frame.result.solvable
        /\ b.pc = "done" =>
            /\ BuiltIcons = initialBoard
            /\ b.solvable = frame.result.solvable
            /\ ~b.solvable => b.calls = 50

\* A level built from the assignment of the third call, the first that
\* returned Solvable.
C36_Witness ==
    /\ game.builder.pc = "done"
    /\ game.builder.calls = 3
    /\ frame.result.solvable
    /\ BuiltIcons = FullTrayBoard

\* The positions of the caller's board that hold a piece.
InitialPieces == {i - 1 : i \in {j \in DOMAIN initialBoard : initialBoard[j] # EMPTY}}

RECURSIVE ClearedOnPath(_, _, _, _)
ClearedOnPath(board, tray, moves, i) ==
    IF i > Len(moves) THEN 0
    ELSE LET resolved == resolveTrayTriples(Append(tray, board[moves[i] + 1]))
         IN  resolved.clearedCount
             + ClearedOnPath([board EXCEPT ![moves[i] + 1] = EMPTY],
                             resolved.tray, moves, i + 1)

\* C38: every node has the initial piece count less its depth on its board
\* and its depth less the pieces cleared on its path, which come in threes,
\* in its tray, so its tray length is congruent to its depth modulo 3; a
\* Solvable result is returned only for a board on which every piece type
\* occurs a multiple of 3 times.
C38_PieceConservation ==
    /\ \A n \in NodesOf(frame) :
        /\ CountPieces(n.board) = CountPieces(initialBoard) - n.depth
        /\ Len(n.tray) = n.depth - ClearedOnPath(initialBoard, <<>>, n.moves, 1)
        /\ ClearedOnPath(initialBoard, <<>>, n.moves, 1) % 3 = 0
        /\ Len(n.tray) % 3 = n.depth % 3
    /\ ReturnedSolvable =>
        \A x \in Range(initialBoard) \ {EMPTY} : Count(initialBoard, x) % 3 = 0

\* A node three moves deep whose path cleared a triple, and the Solvable
\* result that came of it.
C38_Witness ==
    /\ ReturnedSolvable
    /\ CountPieces(initialBoard) = 3
    /\ \E n \in NodesOf(frame) :
        /\ n.depth = 3
        /\ n.tray = <<>>
        /\ ClearedOnPath(initialBoard, <<>>, n.moves, 1) = 3

\* The ids of the tiles at a location.
TilesAt(location) ==
    {game.tiles[i].id : i \in {j \in DOMAIN game.tiles :
                                    game.tiles[j].location = location}}

====
